---- MODULE Spec2Model ----
(***************************************************************************)
(* Normalization & quality pipeline of the earnings agent:                 *)
(*   - quality engine: stage-run seeding, waterfall reset sweep, stage 1a  *)
(*     completeness check (quality_engine/, storage/database.py)           *)
(*   - label normalizer: discovery, review, application                    *)
(*     (normalization/label_normalizer.py, storage/database.py)            *)
(* Canonical ids are modelled as the integers 1..NumIds (their sort order  *)
(* is the order of the integers); 0 is a falsy id (None, "" or no key).    *)
(***************************************************************************)
EXTENDS Integers, Sequences, FiniteSets, TLC

\* ------------------------------------------------------------------ bounds
NumIds == 3
MaxFigures == 2
MaxExpected == 2
NumRuns == 2
MaxSweeps == 2
NumDocs == 2
NumStaged == 3
NumSweepers == 2
NumRaceDocs == 1
MaxStatements == 2
MaxUnitFigures == 2
MaxRaw == 3
MaxRoots == 2
MaxChildren == 2
MaxPlaybookDocs == 2

\* ------------------------------------------------------- program constants
StageCount == 5
NoId == 0
CURRENT_STAGE_1_VERSION == "1.0"
PARSER_VERSION == "v3.0-accuracy-upgrade"
LLM_MAX_RETRIES == 3
LLM_INITIAL_BACKOFF == 5
RESET_REASON_S1 == "Resetting due to new Stage 1 version"

NULL == "None"
Ids == 1..NumIds
Stages == 1..StageCount
Docs == 1..NumDocs
StagedDocs == 1..NumStaged
AllDocs == Docs \cup StagedDocs
Sweepers == 1..NumSweepers

VARIABLES
    cc_data,        \* argument parsed_statement_data of run_completeness_check
    cc_expected,    \* argument expected_leaf_ids of run_completeness_check
    cc_result,      \* its return value (NULL before the call)
    runs,           \* table quality_engine_runs, in run_id order
    runs0,          \* the table as it was before the first sweep
    sweeps,         \* number of waterfall sweeps executed so far
    parsed,         \* table parsed_documents: doc_id -> row
    label_review_status,  \* staged_normalized_data.label_review_status per doc
    unit_review_status,   \* staged_normalized_data.unit_review_status per doc
    label_normalized_data,\* normalized_data['label_normalized_data'] per doc
    label_mapping_cache,  \* table label_mapping_cache: (raw_label, industry) -> row
    discovery,      \* the label discovery sweep in progress, if any
    ua_analysis,    \* argument analysis of determine_review_requirement
    ua_result,      \* its return value
    statement_normalized,      \* staged_normalized_data.statement_normalized
    statement_normalized_data, \* normalized_data['statement_normalized_data'] set
    unit_normalized_data,      \* normalized_data['unit_normalized_data'] per doc
    unit_review_queue,         \* table unit_review_queue: doc_id -> row
    unit_oracle_calls,         \* oracle requests issued by unit discovery per doc
    unit_swept,     \* per doc: what the oracle had to say in the last unit sweep
    unit_applied,   \* docs whose approved review a unit application pass fetched
    sweepers,       \* concurrent label discovery sweeps, statement by statement
    workers,        \* concurrent phase sweeps, write by write
    cs_raw_statements,    \* argument raw_statements of categorize_statements
    cs_statement_mapping, \* argument statement_mapping of the same call
    cs_result,      \* its return value
    pb_docs,        \* the YAML documents of the taxonomy source
    pb_leaf_nodes,  \* what load_playbook_leaf_nodes returns for them
    pb_statement_leaves,  \* StatementPlaybookLoader.statement_leaves for them
    llm_call,       \* one call of call_gemini_with_retry, attempt by attempt
    playbook_readable,    \* the taxonomy source can be opened and parsed
    doc_kind        \* per doc: which of the sample filings the document is

ccvars == <<cc_data, cc_expected, cc_result>>
qvars == <<runs, runs0, sweeps, parsed>>
stagedvars == <<unit_review_status, label_normalized_data>>
labelvars == <<label_mapping_cache, discovery>>
uavars == <<ua_analysis, ua_result>>
stmtvars == <<statement_normalized, statement_normalized_data>>
unitvars == <<unit_normalized_data, unit_review_queue, unit_oracle_calls,
             unit_swept, unit_applied>>
sweepvars == <<sweepers, workers>>
csvars == <<cs_raw_statements, cs_statement_mapping, cs_result>>
pbvars == <<pb_docs, pb_leaf_nodes, pb_statement_leaves>>
libvars == <<csvars, pbvars, llm_call, playbook_readable, doc_kind>>
pipevars == <<uavars, libvars, stmtvars, unitvars, sweepvars>>

vars == <<cc_data, cc_expected, cc_result, runs, runs0, sweeps, parsed,
          label_review_status, unit_review_status, label_normalized_data,
          label_mapping_cache, discovery, ua_analysis, ua_result,
          statement_normalized, statement_normalized_data,
          unit_normalized_data, unit_review_queue, unit_oracle_calls,
          unit_swept, unit_applied, sweepers, workers,
          cs_raw_statements, cs_statement_mapping, cs_result,
          pb_docs, pb_leaf_nodes, pb_statement_leaves, llm_call,
          playbook_readable, doc_kind>>

\* ----------------------------------------------------------------- helpers
RECURSIVE SortSet(_)
\* sorted(list(S)) for a set of ids
SortSet(S) ==
    IF S = {} THEN <<>>
    ELSE LET m == CHOOSE x \in S : \A y \in S : x <= y
         IN  <<m>> \o SortSet(S \ {m})

Range(s) == {s[i] : i \in DOMAIN s}

SeqsUpTo(S, n) == UNION {[1..k -> S] : k \in 0..n}

\* a Python dict used as details blob: its keys and the value under each key
NoneDetails ==
    [is_none |-> TRUE, keys |-> {}, missing_ids |-> <<>>,
     unexpected_ids |-> <<>>, text |-> ""]

EmptyDetails ==
    [is_none |-> FALSE, keys |-> {}, missing_ids |-> <<>>,
     unexpected_ids |-> <<>>, text |-> ""]

\* ------------------------------------------------ stage 1a: completeness
\* item.get('playbook_id') is truthy
HasPlaybookId(item) == item.playbook_id # NoId

\* the set comprehension building present_ids
PresentIds(data) ==
    {data.normalized_figures[i].playbook_id :
        i \in {j \in DOMAIN data.normalized_figures :
                  HasPlaybookId(data.normalized_figures[j])}}

\* `not parsed_statement_data or 'normalized_figures' not in ...`
NoFiguresArrayOnlyFalsy(data) == data.is_none \/ data.keys = {}

NoFiguresArray(data) ==
    data.is_none \/ data.keys = {} \/ "normalized_figures" \notin data.keys

\* sorted(list(present_ids - expected_set))
UnexpectedIds(present_ids, expected_set) == SortSet(present_ids \ expected_set)

MissingIdsSwapped(expected_set, present_ids) == present_ids \ expected_set

\* expected_set - present_ids
MissingIds(expected_set, present_ids) == expected_set \ present_ids

run_completeness_check(data, expected_leaf_ids) ==
    IF NoFiguresArray(data)
    THEN [status |-> "FAILURE",
          details |-> [EmptyDetails EXCEPT
                          !.keys = {"missing_ids", "reason"},
                          !.missing_ids = expected_leaf_ids,
                          !.text = "Normalized figures array not found."]]
    ELSE LET present_ids == PresentIds(data)
             expected_set == Range(expected_leaf_ids)
             unexpected_ids == UnexpectedIds(present_ids, expected_set)
             missing_ids == MissingIds(expected_set, present_ids)
             with_unexpected(d) ==
                 IF unexpected_ids # <<>>
                 THEN [d EXCEPT !.keys = @ \cup {"unexpected_ids"},
                                !.unexpected_ids = unexpected_ids]
                 ELSE d
         IN  IF missing_ids = {}
             THEN LET details == with_unexpected(EmptyDetails)
                  IN  [status |-> "SUCCESS",
                       details |-> IF details.keys # {} THEN details
                                   ELSE NoneDetails]
             ELSE [status |-> "FAILURE",
                   details |-> with_unexpected(
                       [EmptyDetails EXCEPT
                           !.keys = {"missing_ids"},
                           !.missing_ids = SortSet(missing_ids)])]

\* inputs of the completeness check
Figures == [playbook_id : {NoId} \cup Ids, value : {NULL, "num"}]

NoneData == [is_none |-> TRUE, keys |-> {}, normalized_figures |-> <<>>]

EmptyDictData == [is_none |-> FALSE, keys |-> {}, normalized_figures |-> <<>>]

ErrorDictData ==
    [is_none |-> FALSE, keys |-> {"error"}, normalized_figures |-> <<>>]

FiguresData(figs) ==
    [is_none |-> FALSE, keys |-> {"normalized_figures"},
     normalized_figures |-> figs]

StatementDatas ==
    {NoneData, EmptyDictData, ErrorDictData}
        \cup {FiguresData(f) : f \in SeqsUpTo(Figures, MaxFigures)}

ExpectedLists == SeqsUpTo(Ids, MaxExpected)

NoResult == [status |-> NULL, details |-> NoneDetails]

CompletenessCall ==
    /\ cc_result = NoResult
    /\ cc_result' = run_completeness_check(cc_data, cc_expected)
    /\ UNCHANGED pipevars
    /\ UNCHANGED <<cc_data, cc_expected, qvars, label_review_status,
                   stagedvars, labelvars>>

\* --------------------------------------------- quality_engine_runs table
NoReason == <<>>

\* server defaults of QualityEngineRun: every stage PENDING, versions NULL
NewRun(doc_id) ==
    [doc_id |-> doc_id,
     stage_status |-> [k \in Stages |-> "PENDING"],
     stage_version |-> [k \in Stages |-> NULL],
     failure_reason |-> NoReason,
     details |-> NoneDetails]

\* --------------------------------------------------- waterfall reset sweep
ResetWhereVersionOnly(r) ==
    /\ r.stage_version[1] # NULL
    /\ r.stage_version[1] # CURRENT_STAGE_1_VERSION

\* the WHERE clause; in SQL `NULL != '1.0'` is not true, so a row without a
\* stamped version is not selected
ResetWhere(r) ==
    /\ r.stage_status[1] = "PASSED"
    /\ r.stage_version[1] # NULL
    /\ r.stage_version[1] # CURRENT_STAGE_1_VERSION

ResetValuesStage1Only(r) ==
    [r EXCEPT !.stage_status[1] = "PENDING",
              !.stage_version[1] = NULL,
              !.failure_reason = <<RESET_REASON_S1>>,
              !.details = NoneDetails]

ResetValuesDeepestStage(r) ==
    LET last == CHOOSE k \in Stages :
                    /\ r.stage_status[k] # "PENDING"
                    /\ \A j \in Stages : j > k => r.stage_status[j] = "PENDING"
    IN  [r EXCEPT !.stage_status[last] = "PENDING",
                  !.stage_version[last] = NULL,
                  !.failure_reason = <<RESET_REASON_S1>>,
                  !.details = NoneDetails]

\* the VALUES clause
ResetValues(r) ==
    [r EXCEPT !.stage_status = [k \in Stages |-> "PENDING"],
              !.stage_version = [k \in Stages |-> NULL],
              !.failure_reason = <<RESET_REASON_S1>>,
              !.details = NoneDetails]

\* the UPDATE statement applied to the whole table
WaterfallReset(table) ==
    [i \in DOMAIN table |->
        IF ResetWhere(table[i]) THEN ResetValues(table[i]) ELSE table[i]]

trigger_waterfall_resets ==
    /\ runs' = WaterfallReset(runs)
    /\ UNCHANGED pipevars
    /\ UNCHANGED <<ccvars, parsed, label_review_status, stagedvars,
                   labelvars>>

\* one sweep over a table given as input, with the history the claims read
SweepOnce ==
    /\ sweeps < MaxSweeps
    /\ trigger_waterfall_resets
    /\ sweeps' = sweeps + 1
    /\ runs0' = IF sweeps = 0 THEN runs ELSE runs0

\* rows a table can hold when a sweep starts: stage 1 in any of its states,
\* stamped or not, later stages passed up to some stage, with or without
\* the record of an earlier failure
Stage1States ==
    {<<"PENDING", NULL>>, <<"COMPLETENESS_ERROR", NULL>>,
     <<"COMPLETENESS_CHECK_PASSED", NULL>>, <<"COMPLETENESS_ERROR", "0.9">>,
     <<"PASSED", NULL>>, <<"PASSED", "0.9">>,
     <<"PASSED", CURRENT_STAGE_1_VERSION>>}

SampleFailureDetails ==
    [EmptyDetails EXCEPT !.keys = {"missing_ids"}, !.missing_ids = <<1>>]

RowShapes ==
    {sh \in [s1 : Stage1States, passed_upto : Stages, failed : BOOLEAN] :
        sh.s1[1] # "PASSED" => sh.passed_upto = 1}

RowOf(doc_id, sh) ==
    [doc_id |-> doc_id,
     stage_status |->
        [k \in Stages |-> IF k = 1 THEN sh.s1[1]
                          ELSE IF k <= sh.passed_upto THEN "PASSED"
                          ELSE "PENDING"],
     stage_version |->
        [k \in Stages |-> IF k = 1 THEN sh.s1[2]
                          ELSE IF k <= sh.passed_upto THEN "1.0"
                          ELSE NULL],
     failure_reason |->
        IF sh.failed
        THEN <<"Completeness check failed on: ", "standalone_pnl">>
        ELSE NoReason,
     details |-> IF sh.failed THEN SampleFailureDetails ELSE NoneDetails]

\* ------------------------------------------------------ parsed documents
\* a PDF filing after statement isolation: content without an extraction
PdfIsolated ==
    [parse_status |-> "ISOLATION_SUCCESS", parser_version |-> "parser-version-1.0",
     content |-> [is_none |-> FALSE, has_extraction |-> FALSE,
                  statements |-> <<>>]]

\* an XBRL / scraper filing: the source of the normalization pipeline
ApiParsed ==
    [parse_status |-> "PARSED_OK", parser_version |-> "parser-version-1.0",
     content |-> [is_none |-> FALSE, has_extraction |-> FALSE,
                  statements |-> <<>>]]

\* statement types the isolator found in a filing
IsolatedStatements == <<"standalone_pnl", "standalone_balance_sheet">>

\* `'pnl' in statement_key` ... `else: continue`
PlaybookKey(statement_key) ==
    IF statement_key \in {"standalone_pnl", "consolidated_pnl"} THEN "pnl"
    ELSE IF statement_key \in
            {"standalone_balance_sheet", "consolidated_balance_sheet"}
         THEN "balance_sheet"
    ELSE IF statement_key \in {"standalone_cash_flow", "consolidated_cash_flow"}
         THEN "cash_flow"
    ELSE NULL

\* playbook_leaf_nodes.get(playbook_key, []) for the taxonomy of the model
playbook_leaf_nodes(playbook_key) ==
    IF playbook_key = "pnl" THEN <<1, 2>>
    ELSE IF playbook_key = "balance_sheet" THEN <<2, 3>>
    ELSE <<>>

\* what the extraction oracle can return for a template: every template
\* entry kept with a value, kept with value null, or dropped
FilledTemplates(template) ==
    {SelectSeq([i \in DOMAIN template |->
                   [playbook_id |-> IF f[i] = "dropped" THEN NoId
                                    ELSE template[i],
                    value |-> IF f[i] = "num" THEN "num" ELSE NULL]],
               LAMBDA fig : fig.playbook_id # NoId) :
        f \in [DOMAIN template -> {"num", "null", "dropped"}]}

\* per statement: an exception, or data with at least one non-null value
ExtractionResults(statement_type) ==
    {ErrorDictData} \cup
    {FiguresData(figs) :
        figs \in {g \in FilledTemplates(
                            playbook_leaf_nodes(PlaybookKey(statement_type))) :
                     \E i \in DOMAIN g : g[i].value # NULL}}

process_single_document_extraction(doc_id) ==
    /\ parsed[doc_id].parse_status \in {"ISOLATION_SUCCESS", "EXTRACTION_ERROR"}
    /\ parsed[doc_id].parser_version # PARSER_VERSION
    /\ \E pnl \in ExtractionResults(IsolatedStatements[1]),
          bs \in ExtractionResults(IsolatedStatements[2]) :
          LET final_extraction_data ==
                  <<[key |-> IsolatedStatements[1], data |-> pnl],
                    [key |-> IsolatedStatements[2], data |-> bs]>>
              failed == pnl = ErrorDictData \/ bs = ErrorDictData
          IN  parsed' = [parsed EXCEPT ![doc_id] =
                  [parse_status |-> IF failed THEN "EXTRACTION_ERROR"
                                    ELSE "EXTRACTION_SUCCESS",
                   parser_version |-> PARSER_VERSION,
                   content |-> [is_none |-> FALSE, has_extraction |-> TRUE,
                                statements |-> final_extraction_data]]]
    /\ UNCHANGED pipevars
    /\ UNCHANGED <<ccvars, runs, runs0, sweeps, label_review_status,
                   stagedvars, labelvars>>

\* the upstream repair of a filing: an operator sends an extracted filing
\* back to the extractor by putting the row of parsed_documents into the
\* state the extractor selects (pdf_extractor_task.py:323-324); the content
\* is left as it is until the extractor writes it again
ResubmitForExtraction(doc_id) ==
    /\ parsed[doc_id].parse_status = "EXTRACTION_SUCCESS"
    /\ parsed' = [parsed EXCEPT ![doc_id] =
                     [@ EXCEPT !.parse_status = "ISOLATION_SUCCESS",
                               !.parser_version = "parser-version-1.0"]]
    /\ UNCHANGED pipevars
    /\ UNCHANGED <<ccvars, runs, runs0, sweeps, label_review_status,
                   stagedvars, labelvars>>

\* ------------------------------------------------------ stage-run seeding
RunDocIds(table) == {table[i].doc_id : i \in DOMAIN table}

\* parsed documents with EXTRACTION_SUCCESS that are not in the queue
DocsToCreate(table, docs) ==
    {d \in DOMAIN docs :
        /\ docs[d].parse_status = "EXTRACTION_SUCCESS"
        /\ d \notin RunDocIds(table)}

\* an insert that does not look at the rows that are there
bulk_insert_mappingsUnchecked(table, new_ids) ==
    table \o [i \in DOMAIN new_ids |-> NewRun(new_ids[i])]

\* session.bulk_insert_mappings and commit under the unique constraint on
\* doc_id: a doc_id that has a row by now fails the insert, which is rolled
\* back as a whole
bulk_insert_mappings(table, new_ids) ==
    IF \E i \in DOMAIN new_ids : new_ids[i] \in RunDocIds(table)
    THEN table
    ELSE table \o [i \in DOMAIN new_ids |-> NewRun(new_ids[i])]

SeedRuns(table, docs) ==
    bulk_insert_mappings(table, SortSet(DocsToCreate(table, docs)))

create_quality_engine_runs_for_new_documents ==
    /\ runs' = SeedRuns(runs, parsed)
    /\ UNCHANGED pipevars
    /\ UNCHANGED <<ccvars, runs0, sweeps, parsed, label_review_status,
                   stagedvars, labelvars>>

\* --------------------------------------------------------------- stage 1a
\* index of the first statement whose completeness check fails, 0 if none
FirstFailure(statements) ==
    LET failing ==
            {i \in DOMAIN statements :
                /\ PlaybookKey(statements[i].key) # NULL
                /\ run_completeness_check(
                       statements[i].data,
                       playbook_leaf_nodes(PlaybookKey(statements[i].key))
                   ).status = "FAILURE"}
    IN  IF failing = {} THEN 0
        ELSE CHOOSE i \in failing : \A j \in failing : i <= j

\* a check that closes stage 1 on success and stamps a version
CheckRunClosingStage(run, content) ==
    IF content.is_none \/ ~content.has_extraction
    THEN [run EXCEPT !.stage_status[1] = "COMPLETENESS_ERROR"]
    ELSE [run EXCEPT !.stage_status[1] = "PASSED",
                     !.stage_version[1] = "0.9"]

\* the body of the loop over runs_to_process, for one run
CheckRun(run, content) ==
    IF content.is_none \/ ~content.has_extraction
    THEN [run EXCEPT
             !.stage_status[1] = "COMPLETENESS_ERROR",
             !.failure_reason =
                 <<"Critical: llm_call_2_extraction block is missing.">>,
             !.details = [EmptyDetails EXCEPT
                             !.keys = {"error"},
                             !.text = "Missing extraction data"]]
    ELSE LET i == FirstFailure(content.statements)
         IN  IF i # 0
             THEN [run EXCEPT
                      !.stage_status[1] = "COMPLETENESS_ERROR",
                      !.failure_reason =
                          <<"Completeness check failed on: ",
                            content.statements[i].key>>,
                      !.details =
                          run_completeness_check(
                              content.statements[i].data,
                              playbook_leaf_nodes(
                                  PlaybookKey(content.statements[i].key))
                          ).details]
             ELSE [run EXCEPT
                      !.stage_status[1] = "COMPLETENESS_CHECK_PASSED"]

\* a selection of the runs that were never checked only
ToProcessPendingOnly(run) == run.stage_status[1] = "PENDING"

\* get_runs_by_stage_1_status(['PENDING', 'COMPLETENESS_ERROR'])
ToProcess(run) == run.stage_status[1] \in {"PENDING", "COMPLETENESS_ERROR"}

Stage1a(table, docs) ==
    [i \in DOMAIN table |->
        IF ToProcess(table[i])
        THEN CheckRun(table[i], docs[table[i].doc_id].content)
        ELSE table[i]]

run_stage_1a_checks ==
    /\ runs' = Stage1a(runs, parsed)
    /\ UNCHANGED pipevars
    /\ UNCHANGED <<ccvars, runs0, sweeps, parsed, label_review_status,
                   stagedvars, labelvars>>

\* the master orchestrator: seed, waterfall resets, stage 1
main ==
    /\ runs' = Stage1a(WaterfallReset(SeedRuns(runs, parsed)), parsed)
    /\ UNCHANGED pipevars
    /\ UNCHANGED <<ccvars, runs0, sweeps, parsed, label_review_status,
                   stagedvars, labelvars>>

\* the sweep run on its own between other operations
SweepPipeline ==
    /\ trigger_waterfall_resets
    /\ UNCHANGED <<runs0, sweeps>>

\* ------------------------------------------------- staged filings (fixtures)
\* the sample filings: 1, 2, 3 and 0 are banking filings with statements;
\* 4 is the filing of an insurer, 5 one of a company without company
\* context, 6 a banking filing without statement analyses, 7 a banking
\* filing with a statement of unknown kind, a cash-flow statement (the
\* taxonomy of the model has no cash-flow vocabulary) and a P&L
SampleFilings == [d \in AllDocs |-> d % 4]

SkippedKinds == {4, 5, 6}
MixedKind == 7

\* company_context.classification.industry_name of the filing's company,
\* NULL when get_company_context returns nothing
DocIndustry(d) ==
    IF doc_kind[d] = 2 THEN "Banks"
    ELSE IF doc_kind[d] = 4 THEN "Insurance"
    ELSE IF doc_kind[d] = 5 THEN NULL
    ELSE "Banking"

Fig(label, value) ==
    [label |-> label, value |-> value, representation |-> "currency",
     currency_context |-> "in lacs"]

\* normalized_data['unit_normalized_data']['llm_unit_analysis']
\* ['statement_analyses'] of the staged filings
StatementAnalyses(d) ==
    CASE doc_kind[d] = 1 ->
            <<[standard_mapping |-> "standalone_pnl",
               figures |-> <<Fig("L1", 10), Fig("L2", 20)>>],
              [standard_mapping |-> "consolidated_balance_sheet",
               figures |-> <<Fig("L3", 30)>>]>>
      [] doc_kind[d] = 2 ->
            <<[standard_mapping |-> "standalone_pnl",
               figures |-> <<Fig("L1", 40)>>],
              [standard_mapping |-> "consolidated_pnl",
               figures |-> <<Fig("L1", 41)>>]>>
      [] doc_kind[d] = 3 ->
            <<[standard_mapping |-> "standalone_pnl", figures |-> <<>>]>>
      [] doc_kind[d] = 6 -> <<>>
      [] doc_kind[d] = 7 ->
            <<[standard_mapping |-> "segment_results",
               figures |-> <<Fig("L1", 70)>>],
              [standard_mapping |-> "standalone_cash_flow",
               figures |-> <<Fig("L2", 80)>>],
              [standard_mapping |-> "standalone_pnl",
               figures |-> <<Fig("L3", 90)>>]>>
      [] OTHER ->
            <<[standard_mapping |-> "consolidated_pnl",
               figures |-> <<Fig(" L3 ", 50), Fig("L1", 60)>>]>>

\* the suspect markers of a figure of statement_normalized_data: the
\* standalone "L1" of two filings is marked, no other figure has the keys
SuspectOf(d, std_map, label) ==
    IF doc_kind[d] \in {1, 2} /\ std_map = "standalone_pnl" /\ label = "L1"
    THEN [found |-> TRUE, has_suspect |-> TRUE, suspect |-> TRUE,
          suspect_reason |-> "value mismatch"]
    ELSE [found |-> TRUE, has_suspect |-> FALSE, suspect |-> FALSE,
          suspect_reason |-> NULL]

RECURSIVE StatementNormalizedFigures(_, _, _)
\* the figures of statement_normalized_data[scope], statement by statement,
\* each with its label
StatementNormalizedFigures(d, i, scope) ==
    LET stmts == StatementAnalyses(d)
    IN  IF i > Len(stmts) THEN <<>>
        ELSE (IF (stmts[i].standard_mapping
                     \in {"standalone_pnl", "standalone_balance_sheet",
                          "standalone_cash_flow"}) = (scope = "standalone")
              THEN [j \in DOMAIN stmts[i].figures |->
                       [label |-> stmts[i].figures[j].label,
                        fig |-> SuspectOf(d, stmts[i].standard_mapping,
                                          stmts[i].figures[j].label)]]
              ELSE <<>>)
             \o StatementNormalizedFigures(d, i + 1, scope)

\* original_figures.get(raw_label, {}): the dict is filled scope by scope
\* and statement by statement under the label alone, so it holds the last
\* figure with the label
OriginalFigure(d, label) ==
    LET all == StatementNormalizedFigures(d, 1, "standalone")
                   \o StatementNormalizedFigures(d, 1, "consolidated")
        hits == {k \in DOMAIN all : all[k].label = label}
    IN  IF hits = {}
        THEN [found |-> FALSE, has_suspect |-> FALSE, suspect |-> FALSE,
              suspect_reason |-> NULL]
        ELSE all[CHOOSE k \in hits : \A m \in hits : m <= k].fig

\* str.strip() on the labels of the fixtures
Strip(label) == IF label = " L3 " THEN "L3" ELSE label

\* ------------------------------------------------------ label mapping cache
CacheLabels == {"L1", "L2", "L3"}
Industries == {"Banking", "Banks"}
CacheKeys == CacheLabels \X Industries

\* source_context of a row: where the label was discovered (the ticker is
\* the document's)
NoContext == [doc_id |-> NoId, statement_key |-> NULL,
              standard_mapping |-> NULL]

SourceContext(doc_id, std_map, stmt_key) ==
    [doc_id |-> doc_id, statement_key |-> stmt_key,
     standard_mapping |-> std_map]

AbsentMapping ==
    [status |-> "ABSENT", normalized_label |-> NoId,
     source_context |-> NoContext]

get_label_mappingAnyIndustry(cache, raw_label, industry) ==
    IF \E i \in Industries :
          /\ <<raw_label, i>> \in CacheKeys
          /\ cache[<<raw_label, i>>].status = "APPROVED"
    THEN cache[<<raw_label,
                 CHOOSE i \in Industries :
                     /\ <<raw_label, i>> \in CacheKeys
                     /\ cache[<<raw_label, i>>].status = "APPROVED">>]
    ELSE AbsentMapping

\* session.get(LabelMapping, (raw_label, industry)); ABSENT stands for None
get_label_mapping(cache, raw_label, industry) ==
    IF <<raw_label, industry>> \in CacheKeys
    THEN cache[<<raw_label, industry>>]
    ELSE AbsentMapping

\* INSERT ... ON CONFLICT (raw_label, industry) DO UPDATE SET
\* normalized_label, status (and the review stamps): source_context is
\* written by the insert only
upsert_label_mapping(cache, raw_label, industry, normalized_label, status, source_context) ==
    [cache EXCEPT ![<<raw_label, industry>>] =
        [status |-> status, normalized_label |-> normalized_label,
         source_context |-> IF @.status = "ABSENT" THEN source_context
                            ELSE @.source_context]]

\* a selection by the label status alone
get_docs_pending_label_normalizationAnyUnit ==
    {d \in StagedDocs : label_review_status[d] = "PENDING"}

\* get_docs_pending_label_normalization()
get_docs_pending_label_normalization ==
    {d \in StagedDocs :
        /\ unit_review_status[d] \in {"APPROVED", "AUTO_APPROVED"}
        /\ label_review_status[d] = "PENDING"}

\* get_docs_pending_label_review()
get_docs_pending_label_review ==
    {d \in StagedDocs : label_review_status[d] = "PENDING_REVIEW"}

\* ---------------------------------------------------------- label discovery
\* the statement key of the playbook for a standard_mapping
StmtKey(std_map) ==
    IF std_map \in {"standalone_pnl", "consolidated_pnl"} THEN "pnl"
    ELSE IF std_map \in
            {"standalone_balance_sheet", "consolidated_balance_sheet"}
         THEN "balance_sheet"
    ELSE IF std_map \in {"standalone_cash_flow", "consolidated_cash_flow"}
         THEN "cash_flow_indirect"
    ELSE NULL

\* a loader that has the P&L vocabulary under every key
get_leaves_forAnyKey(stmt_key) ==
    IF ~playbook_readable THEN <<>> ELSE <<1, 2>>

\* sp_loader.get_leaves_for(stmt_key): the leaves of the deployed taxonomy,
\* none when the loader could not read its source
get_leaves_for(stmt_key) ==
    IF ~playbook_readable THEN <<>>
    ELSE IF stmt_key = "pnl" THEN <<1, 2>>
    ELSE IF stmt_key = "balance_sheet" THEN <<2, 3>>
    ELSE <<>>

\* the oracle's suggestion for a raw label when it suggests one
Suggest(label) == IF label = "L2" THEN NoId ELSE 1

\* a key the oracle may return without having been asked about it
EchoedLabel == "L1"

\* raw_labels_this_stmt
RawLabelsOf(figures) ==
    {Strip(figures[i].label) : i \in {j \in DOMAIN figures :
                                         figures[j].label # ""}}

\* the labels of a statement not yet handled in this run, cached or not
NewLabelsIgnoringCache(cache, processed, figures, industry) ==
    {l \in RawLabelsOf(figures) : <<l, industry>> \notin processed}

\* new_labels_to_process
NewLabels(cache, processed, figures, industry) ==
    {l \in RawLabelsOf(figures) :
        /\ <<l, industry>> \notin processed
        /\ get_label_mapping(cache, l, industry).status = "ABSENT"}

RECURSIVE UpsertAll(_, _, _, _, _)
\* the loop over llm_mappings.items()
UpsertAll(cache, labels, industry, answer, source_context) ==
    IF labels = {} THEN cache
    ELSE LET l == CHOOSE x \in labels : TRUE
         IN  UpsertAll(
                 upsert_label_mapping(
                     cache, l, industry,
                     IF answer = "all_null" THEN NoId ELSE Suggest(l),
                     "PENDING_REVIEW", source_context),
                 labels \ {l}, industry, answer, source_context)

RECURSIVE DiscoverStatements(_, _, _, _, _, _, _)
\* the loop `for sa in stmt_analyses`; answers[i] is what the oracle does
\* with the batch of statement i: "error" (the call or the parse raises),
\* "suggest", "all_null" (every label mapped to null) or "extra" (the
\* answer also has a key that was not in the batch)
DiscoverStatements(st, doc_id, stmts, i, industry, allow_llm, answers) ==
    IF i > Len(stmts) THEN st
    ELSE LET sa == stmts[i]
             new == NewLabels(st.cache, st.processed, sa.figures, industry)
             skip == \/ sa.figures = <<>>
                     \/ StmtKey(sa.standard_mapping) = NULL
                     \/ get_leaves_for(StmtKey(sa.standard_mapping)) = <<>>
                     \/ new = {}
                     \/ ~allow_llm
                     \/ answers[i] = "error"
             returned == IF answers[i] = "extra"
                         THEN new \cup {EchoedLabel} ELSE new
             next == IF skip THEN st
                     ELSE [cache |-> UpsertAll(
                                         st.cache, returned, industry,
                                         answers[i],
                                         SourceContext(
                                             doc_id, sa.standard_mapping,
                                             StmtKey(sa.standard_mapping))),
                           processed |->
                               st.processed
                                   \cup {<<l, industry>> : l \in returned}]
         IN  DiscoverStatements(next, doc_id, stmts, i + 1, industry,
                                allow_llm, answers)

OracleAnswers == {"error", "suggest", "all_null", "extra"}

DiscoveryIdle ==
    [pc |-> "idle", allow_llm |-> TRUE, doc_ids |-> <<>>,
     docs_to_update_status |-> {}, processed_in_this_run |-> {}]

\* start of a sweep: fetch the pending documents
run_label_normalizer_discovery(allow_llm) ==
    /\ discovery.pc = "idle"
    /\ get_docs_pending_label_normalization # {}
    /\ discovery' = [pc |-> "loop", allow_llm |-> allow_llm,
                     doc_ids |-> SortSet(get_docs_pending_label_normalization),
                     docs_to_update_status |-> {},
                     processed_in_this_run |-> {}]
    /\ UNCHANGED pipevars
    /\ UNCHANGED <<ccvars, qvars, label_review_status, stagedvars,
                   label_mapping_cache>>

\* one iteration of `for doc_id in doc_ids`
DiscoveryDoc ==
    /\ discovery.pc = "loop"
    /\ discovery.doc_ids # <<>>
    /\ LET d == Head(discovery.doc_ids)
           industry == DocIndustry(d)
           stmts == StatementAnalyses(d)
           skipped == \/ label_review_status[d] = "NO_RECORD"
                      \/ industry \notin {"Banking", "Banks"}
                      \/ stmts = <<>>
       IN  \E answers \in [DOMAIN stmts -> OracleAnswers] :
              LET st == DiscoverStatements(
                            [cache |-> label_mapping_cache,
                             processed |-> discovery.processed_in_this_run],
                            d, stmts, 1, industry, discovery.allow_llm,
                            answers)
              IN  /\ label_mapping_cache' =
                        IF skipped THEN label_mapping_cache ELSE st.cache
                  /\ discovery' =
                        [discovery EXCEPT
                            !.doc_ids = Tail(@),
                            !.docs_to_update_status =
                                IF skipped THEN @ ELSE @ \cup {d},
                            !.processed_in_this_run =
                                IF skipped THEN @ ELSE st.processed]
    /\ UNCHANGED pipevars
    /\ UNCHANGED <<ccvars, qvars, label_review_status, stagedvars>>

\* after the loop: mark_docs_label_review_status(..., 'PENDING_REVIEW')
DiscoveryFinish ==
    /\ discovery.pc = "loop"
    /\ discovery.doc_ids = <<>>
    /\ label_review_status' =
          [d \in DOMAIN label_review_status |->
              IF d \in discovery.docs_to_update_status
              THEN "PENDING_REVIEW" ELSE label_review_status[d]]
    /\ discovery' = DiscoveryIdle
    /\ UNCHANGED pipevars
    /\ UNCHANGED <<ccvars, qvars, stagedvars, label_mapping_cache>>

\* ------------------------------------------------------------- label review
\* what the reviewer can leave in the text input: NoId stands for the empty
\* text, NullWord for the word 'null' in any case, an id for its name
NullWord == 0 - 1

StoredLabelAsTyped(new_label) == new_label

\* `None if new_label.lower() == 'null' or not new_label else new_label`
StoredLabel(new_label) ==
    IF new_label = NullWord \/ new_label = NoId THEN NoId ELSE new_label

\* the Approve button on a pending row: update_label_mapping_status(...,
\* "APPROVED", new_label=edited_label); an empty text clears the mapping
approveLabel(key, edited_label) ==
    /\ label_mapping_cache[key].status = "PENDING_REVIEW"
    /\ edited_label \in {NoId, NullWord} \cup Ids
    /\ label_mapping_cache' =
          [label_mapping_cache EXCEPT
              ![key] = [@ EXCEPT !.status = "APPROVED",
                                 !.normalized_label =
                                     StoredLabel(edited_label)]]
    /\ UNCHANGED pipevars
    /\ UNCHANGED <<ccvars, qvars, label_review_status, stagedvars, discovery>>

\* the Reject button: update_label_mapping_status(..., "REJECTED")
rejectLabel(key) ==
    /\ label_mapping_cache[key].status = "PENDING_REVIEW"
    /\ label_mapping_cache' =
          [label_mapping_cache EXCEPT ![key].status = "REJECTED"]
    /\ UNCHANGED pipevars
    /\ UNCHANGED <<ccvars, qvars, label_review_status, stagedvars, discovery>>

\* -------------------------------------------------------- label application
\* all_raw_labels
AllRawLabels(d) ==
    UNION {{StatementAnalyses(d)[i].figures[j].label :
               j \in DOMAIN StatementAnalyses(d)[i].figures} :
           i \in DOMAIN StatementAnalyses(d)}

AllApprovedAny(cache, d) ==
    \E l \in AllRawLabels(d) :
        get_label_mapping(cache, l, DocIndustry(d)).status = "APPROVED"

\* the critical check: every raw label has a mapping with status APPROVED
AllApproved(cache, d) ==
    \A l \in AllRawLabels(d) :
        get_label_mapping(cache, l, DocIndustry(d)).status = "APPROVED"

\* `'standalone' if 'standalone' in stmt['standard_mapping'] else ...`
ScopeOf(std_map) ==
    IF std_map \in {"standalone_pnl", "standalone_balance_sheet",
                    "standalone_cash_flow"}
    THEN "standalone" ELSE "consolidated"

NoEntry ==
    [present |-> FALSE, value |-> 0, representation |-> NULL,
     currency_context |-> NULL, suspect |-> FALSE, suspect_reason |-> NULL]

RECURSIVE ScopedFigures(_, _, _)
\* the figures of the statements of one scope, in the order of the loops
ScopedFigures(stmts, i, scope) ==
    IF i > Len(stmts) THEN <<>>
    ELSE (IF ScopeOf(stmts[i].standard_mapping) = scope
          THEN stmts[i].figures ELSE <<>>)
         \o ScopedFigures(stmts, i + 1, scope)

\* final_data[scope][normalized_label]: the last figure mapped to the id
FinalEntry(cache, d, scope, id) ==
    LET figs == ScopedFigures(StatementAnalyses(d), 1, scope)
        hits == {j \in DOMAIN figs :
                    get_label_mapping(cache, figs[j].label,
                                      DocIndustry(d)).normalized_label = id}
    IN  IF hits = {} THEN NoEntry
        ELSE LET j == CHOOSE x \in hits : \A y \in hits : y <= x
                 original_fig == OriginalFigure(d, figs[j].label)
             IN  [present |-> TRUE,
                  value |-> figs[j].value,
                  representation |-> figs[j].representation,
                  currency_context |-> figs[j].currency_context,
                  suspect |-> original_fig.suspect,
                  suspect_reason |-> original_fig.suspect_reason]

NoFinalData ==
    [is_none |-> TRUE,
     standalone |-> [id \in Ids |-> NoEntry],
     consolidated |-> [id \in Ids |-> NoEntry]]

FinalData(cache, d) ==
    [is_none |-> FALSE,
     standalone |-> [id \in Ids |-> FinalEntry(cache, d, "standalone", id)],
     consolidated |-> [id \in Ids |-> FinalEntry(cache, d, "consolidated", id)]]

\* the whole application pass
run_label_normalizer_application ==
    /\ get_docs_pending_label_review # {}
    /\ LET successful_doc_ids ==
               {d \in get_docs_pending_label_review :
                   AllApproved(label_mapping_cache, d)}
       IN  /\ label_normalized_data' =
                 [d \in DOMAIN label_normalized_data |->
                     IF d \in successful_doc_ids
                     THEN FinalData(label_mapping_cache, d)
                     ELSE label_normalized_data[d]]
           /\ label_review_status' =
                 [d \in DOMAIN label_review_status |->
                     IF d \in successful_doc_ids
                     THEN "APPROVED" ELSE label_review_status[d]]
    /\ UNCHANGED pipevars
    /\ UNCHANGED <<ccvars, qvars, unit_review_status, labelvars>>

\* ------------------------------------------------------ unit review decision
\* figures of an oracle unit analysis: label and confidence
UnitFigures == [label : {"L1", "L2"}, confidence : {"high", "low"}]

\* one entry of analysis['statement_analyses']
UnitStatements ==
    [statement_type : {"Profit and Loss", "Balance Sheet"},
     figures : SeqsUpTo(UnitFigures, MaxUnitFigures)]

\* filing_analysis['requires_human_review'] as the oracle may send it: a
\* JSON boolean, null, or no key at all
ReviewFlags == {"True", "False", "None", "absent"}

UnitAnalyses ==
    [requires_human_review : ReviewFlags,
     statement_analyses : SeqsUpTo(UnitStatements, MaxStatements)]

\* truth value of a Python object in `if requires_review:`
Truthy(v) == v = "True"

RECURSIVE LowFiguresOf(_, _)
\* the inner loop: one entry per figure with confidence == 'low'
LowFiguresOf(stmt_analysis, j) ==
    IF j > Len(stmt_analysis.figures) THEN <<>>
    ELSE (IF stmt_analysis.figures[j].confidence = "low"
          THEN <<[statement_type |-> stmt_analysis.statement_type,
                  label |-> stmt_analysis.figures[j].label]>>
          ELSE <<>>)
         \o LowFiguresOf(stmt_analysis, j + 1)

RECURSIVE SuspiciousFigures(_, _)
\* the outer loop over analysis['statement_analyses']
SuspiciousFigures(analysis, i) ==
    IF i > Len(analysis.statement_analyses) THEN <<>>
    ELSE LowFiguresOf(analysis.statement_analyses[i], 1)
         \o SuspiciousFigures(analysis, i + 1)

FilingRequiresReviewIgnored(analysis) == "False"

\* analysis['filing_analysis'].get('requires_human_review', False)
FilingRequiresReview(analysis) ==
    IF analysis.requires_human_review = "absent" THEN "False"
    ELSE analysis.requires_human_review

\* returns (len(suspicious_figures) > 0 or filing_requires_review,
\*          suspicious_figures); `or` yields its second operand when the
\* first is false
determine_review_requirement(analysis) ==
    LET suspicious_figures == SuspiciousFigures(analysis, 1)
    IN  [requires_review |->
            IF Len(suspicious_figures) > 0 THEN "True"
            ELSE FilingRequiresReview(analysis),
         suspicious_figures |-> suspicious_figures]

\* before the call returns
NoReviewResult == [requires_review |-> "not called", suspicious_figures |-> <<>>]

NoUnitAnalysis == [requires_human_review |-> "absent", statement_analyses |-> <<>>]

ReviewRequirementCall ==
    /\ ua_result = NoReviewResult
    /\ ua_result' = determine_review_requirement(ua_analysis)
    /\ UNCHANGED <<ua_analysis, libvars, stmtvars, unitvars, sweepvars>>
    /\ UNCHANGED <<ccvars, qvars, label_review_status, stagedvars, labelvars>>

\* ----------------------------------------------------- unit review queue
\* no row of unit_review_queue for the document
NoQueueRow ==
    [exists |-> FALSE, status |-> NULL, suspicious_figures |-> <<>>,
     low_confidence_count |-> 0, total_figures_analyzed |-> 0,
     llm_analysis |-> NoUnitAnalysis, human_corrections |-> NULL,
     reviewed_by |-> NULL, reviewed_at |-> 0, created_at |-> 0]

\* --------------------------------------------------------- unit discovery
\* what a unit oracle request ends in: the call fails after its retries,
\* the body does not parse or lacks a required key, or one of the analyses
UnitOutcomes == {"error", "malformed", "all_high", "one_low", "flagged"}

ResponsiveOutcomes == {"all_high", "one_low", "flagged"}

\* the analysis of a document's figures the oracle returns
AnalysisFor(d, kind) ==
    [requires_human_review |-> IF kind = "flagged" THEN "True" ELSE "False",
     statement_analyses |->
        [i \in DOMAIN StatementAnalyses(d) |->
            [statement_type |->
                IF StmtKey(StatementAnalyses(d)[i].standard_mapping) = "pnl"
                THEN "Profit and Loss" ELSE "Balance Sheet",
             figures |->
                [j \in DOMAIN StatementAnalyses(d)[i].figures |->
                    [label |-> StatementAnalyses(d)[i].figures[j].label,
                     confidence |->
                        IF kind = "one_low" /\ i = 1 /\ j = 1
                        THEN "low" ELSE "high"]]]]]

\* sum(len(stmt['figures']) for stmt in analysis['statement_analyses'])
TotalFigures(analysis) ==
    Cardinality({p \in (1..MaxStatements) \X (1..MaxUnitFigures) :
        /\ p[1] \in DOMAIN analysis.statement_analyses
        /\ p[2] \in DOMAIN analysis.statement_analyses[p[1]].figures})

\* an insert that overwrites the whole row of the document
create_unit_review_recordFresh(queue, d, analysis, suspicious_figures) ==
    [queue EXCEPT ![d] =
        [exists |-> TRUE,
         status |-> "PENDING_REVIEW",
         suspicious_figures |-> suspicious_figures,
         low_confidence_count |-> Len(suspicious_figures),
         total_figures_analyzed |-> TotalFigures(analysis),
         llm_analysis |-> analysis,
         human_corrections |-> NULL,
         reviewed_by |-> NULL,
         reviewed_at |-> 0,
         created_at |-> queue[d].created_at + 1]]

\* INSERT ... ON CONFLICT (doc_id) DO UPDATE llm_analysis, filing_data,
\* created_at. The times are counted in queuings of the document: created_at
\* is the number of the insert that wrote the row last (the server's now()
\* of an insert is later than that of the one before), reviewed_at the
\* queuing during which the row was reviewed.
create_unit_review_record(queue, d, analysis, suspicious_figures) ==
    [queue EXCEPT ![d] =
        [exists |-> TRUE,
         status |-> IF queue[d].exists THEN queue[d].status
                    ELSE "PENDING_REVIEW",
         suspicious_figures |-> suspicious_figures,
         low_confidence_count |-> Len(suspicious_figures),
         total_figures_analyzed |-> TotalFigures(analysis),
         llm_analysis |-> analysis,
         human_corrections |-> IF queue[d].exists
                               THEN queue[d].human_corrections ELSE NULL,
         reviewed_by |-> IF queue[d].exists
                         THEN queue[d].reviewed_by ELSE NULL,
         reviewed_at |-> IF queue[d].exists
                         THEN queue[d].reviewed_at ELSE 0,
         created_at |-> queue[d].created_at + 1]]

\* one document of the discovery loop; st holds the tables, the result adds
\* the status the function returns
process_unit_normalization_discovery(st, d, outcome) ==
    IF label_review_status[d] = "NO_RECORD"
    THEN [st EXCEPT !.status = "PENDING"]
    ELSE LET called == [st EXCEPT !.calls[d] = @ + 1]
             analysis == AnalysisFor(d, outcome)
             review == determine_review_requirement(analysis)
         IN  IF outcome \in {"error", "malformed"}
             THEN [called EXCEPT !.status = "PENDING"]
             ELSE IF Truthy(review.requires_review)
             THEN [called EXCEPT
                      !.queue = create_unit_review_record(
                                    @, d, analysis, review.suspicious_figures),
                      !.status = "PENDING_REVIEW"]
             ELSE [called EXCEPT !.payload[d] = analysis,
                                 !.status = "AUTO_APPROVED"]

\* get_docs_pending_unit_normalization()
get_docs_pending_unit_normalization ==
    {d \in StagedDocs :
        /\ label_review_status[d] # "NO_RECORD"
        /\ statement_normalized[d]
        /\ unit_review_status[d] = "PENDING"}

\* doc_ids[:0]
DocIdsToProcess(doc_ids) == SubSeq(doc_ids, 1, 0)

RECURSIVE UnitDiscoveryLoop(_, _, _)
\* `for doc_id in doc_ids_to_process`, collecting status_updates in marks
UnitDiscoveryLoop(st, ids, outcomes) ==
    IF ids = <<>> THEN st
    ELSE LET after == process_unit_normalization_discovery(
                          st, Head(ids), outcomes[Head(ids)])
         IN  UnitDiscoveryLoop(
                 [after EXCEPT !.marks[Head(ids)] = after.status],
                 Tail(ids), outcomes)

\* the whole discovery sweep; outcomes[d] is what the oracle has to say
\* about document d
run_unit_normalizer_discovery(allow_llm, outcomes) ==
    LET doc_ids == SortSet(get_docs_pending_unit_normalization)
        st == UnitDiscoveryLoop(
                  [payload |-> unit_normalized_data,
                   queue |-> unit_review_queue,
                   calls |-> unit_oracle_calls,
                   marks |-> [d \in AllDocs |-> "unmarked"],
                   status |-> "PENDING"],
                  DocIdsToProcess(doc_ids), outcomes)
        ran == allow_llm /\ doc_ids # <<>>
    IN  /\ unit_normalized_data' =
              IF ran THEN st.payload ELSE unit_normalized_data
        /\ unit_review_queue' = IF ran THEN st.queue ELSE unit_review_queue
        /\ unit_oracle_calls' = IF ran THEN st.calls ELSE unit_oracle_calls
        /\ unit_review_status' =
              [d \in DOMAIN unit_review_status |->
                  IF ran /\ st.marks[d] # "unmarked"
                  THEN st.marks[d] ELSE unit_review_status[d]]
        /\ unit_swept' =
              [d \in DOMAIN unit_swept |->
                  IF ran /\ d \in get_docs_pending_unit_normalization
                  THEN outcomes[d] ELSE unit_swept[d]]
        /\ UNCHANGED <<uavars, libvars, stmtvars, unit_applied, sweepvars>>
        /\ UNCHANGED <<ccvars, qvars, label_review_status,
                       label_normalized_data, labelvars>>

\* ------------------------------------------------------------ unit review
\* the Approve buttons of the unit review UI on a pending row
approve_unit_review(d, corrections) ==
    /\ unit_review_queue[d].exists
    /\ unit_review_queue[d].status = "PENDING_REVIEW"
    /\ unit_review_queue' =
          [unit_review_queue EXCEPT ![d].status = "APPROVED",
                                    ![d].reviewed_at =
                                        unit_review_queue[d].created_at,
                                    ![d].reviewed_by = "human_reviewer",
                                    ![d].human_corrections = corrections]
    /\ UNCHANGED <<uavars, libvars, stmtvars, unit_normalized_data, unit_oracle_calls,
                   unit_swept, unit_applied, sweepvars>>
    /\ UNCHANGED <<ccvars, qvars, label_review_status, stagedvars, labelvars>>

\* get_approved_unit_reviews()
get_approved_unit_reviews ==
    {d \in StagedDocs :
        unit_review_queue[d].exists /\ unit_review_queue[d].status = "APPROVED"}

ProcessApprovedReviewsDeleting(queue, approved) ==
    [d \in DOMAIN queue |-> IF d \in approved THEN NoQueueRow ELSE queue[d]]

\* "Placeholder for processing logic": the fetched rows are only counted
ProcessApprovedReviews(queue, approved) == queue

\* the whole application pass
run_unit_normalizer_application ==
    /\ unit_review_queue' =
          ProcessApprovedReviews(unit_review_queue, get_approved_unit_reviews)
    /\ unit_applied' = unit_applied \cup get_approved_unit_reviews
    /\ UNCHANGED <<uavars, libvars, stmtvars, unit_normalized_data, unit_oracle_calls,
                   unit_swept, sweepvars>>
    /\ UNCHANGED <<ccvars, qvars, label_review_status, stagedvars, labelvars>>

\* ------------------------------------------- concurrent discovery sweeps
SweeperIdle ==
    [pc |-> "idle", allow_llm |-> TRUE, doc_ids |-> <<>>, stmt |-> 1,
     request |-> {}, docs_to_update_status |-> {},
     processed_in_this_run |-> {}, failed |-> {}, malformed |-> {}]

\* what an oracle request of a sweep ends in when the answer keeps to the
\* labels asked: the call fails after its retries, the body is not valid
\* JSON, or a mapping for every label
RaceAnswers == {"error", "malformed", "suggest", "all_null"}

\* start of a sweep: the documents pending label normalization
SweepStart(w, allow_llm) ==
    /\ sweepers[w].pc = "idle"
    /\ get_docs_pending_label_normalization # {}
    /\ sweepers' =
          [sweepers EXCEPT ![w] =
              [SweeperIdle EXCEPT
                  !.pc = "loop", !.allow_llm = allow_llm,
                  !.doc_ids = SortSet(get_docs_pending_label_normalization)]]
    /\ UNCHANGED <<uavars, libvars, stmtvars, unitvars, workers>>
    /\ UNCHANGED <<ccvars, qvars, label_review_status, stagedvars, labelvars>>

\* the sweep moves on: it drops a document it cannot process, finishes a
\* document, skips a statement, or sends the new labels of the statement to
\* the oracle
SweepStep(w) ==
    /\ sweepers[w].pc = "loop"
    /\ sweepers[w].doc_ids # <<>>
    /\ LET sw == sweepers[w]
           d == Head(sw.doc_ids)
           industry == DocIndustry(d)
           stmts == StatementAnalyses(d)
           skipped == \/ label_review_status[d] = "NO_RECORD"
                      \/ industry \notin {"Banking", "Banks"}
                      \/ stmts = <<>>
       IN  sweepers' =
              [sweepers EXCEPT ![w] =
                  IF skipped
                  THEN [sw EXCEPT !.doc_ids = Tail(@), !.stmt = 1]
                  ELSE IF sw.stmt > Len(stmts)
                  THEN [sw EXCEPT !.doc_ids = Tail(@), !.stmt = 1,
                                  !.docs_to_update_status = @ \cup {d}]
                  ELSE LET sa == stmts[sw.stmt]
                           new == NewLabels(label_mapping_cache,
                                            sw.processed_in_this_run,
                                            sa.figures, industry)
                       IN  IF \/ sa.figures = <<>>
                              \/ StmtKey(sa.standard_mapping) = NULL
                              \/ get_leaves_for(
                                     StmtKey(sa.standard_mapping)) = <<>>
                              \/ new = {}
                              \/ ~sw.allow_llm
                           THEN [sw EXCEPT !.stmt = @ + 1]
                           ELSE [sw EXCEPT !.pc = "oracle",
                                           !.request = new]]
    /\ UNCHANGED <<uavars, libvars, stmtvars, unitvars, workers>>
    /\ UNCHANGED <<ccvars, qvars, label_review_status, stagedvars, labelvars>>

\* the oracle call returns or raises; every exception is caught and logged
OracleReturn(w, answer) ==
    /\ sweepers[w].pc = "oracle"
    /\ LET sw == sweepers[w]
           d == Head(sw.doc_ids)
           industry == DocIndustry(d)
           next == [sw EXCEPT !.pc = "loop", !.stmt = @ + 1, !.request = {}]
       IN  /\ label_mapping_cache' =
                 IF answer \in {"error", "malformed"}
                 THEN label_mapping_cache
                 ELSE UpsertAll(
                          label_mapping_cache, sw.request, industry, answer,
                          SourceContext(
                              d, StatementAnalyses(d)[sw.stmt].standard_mapping,
                              StmtKey(StatementAnalyses(d)[sw.stmt]
                                          .standard_mapping)))
           /\ sweepers' =
                 [sweepers EXCEPT ![w] =
                     IF answer = "error"
                     THEN [next EXCEPT !.failed = @ \cup {d}]
                     ELSE IF answer = "malformed"
                     THEN [next EXCEPT !.malformed = @ \cup {d}]
                     ELSE [next EXCEPT
                              !.processed_in_this_run =
                                  @ \cup {<<l, industry>> : l \in sw.request}]]
    /\ UNCHANGED <<uavars, libvars, stmtvars, unitvars, workers>>
    /\ UNCHANGED <<ccvars, qvars, label_review_status, stagedvars, discovery>>

\* the oracle's answer maps every label asked and one key that was not in
\* the batch: llm_mappings.items() is written as returned
OracleEcho(w) ==
    /\ sweepers[w].pc = "oracle"
    /\ LET sw == sweepers[w]
           d == Head(sw.doc_ids)
           industry == DocIndustry(d)
           returned == sw.request \cup {EchoedLabel}
       IN  /\ label_mapping_cache' =
                 UpsertAll(
                     label_mapping_cache, returned, industry, "extra",
                     SourceContext(
                         d, StatementAnalyses(d)[sw.stmt].standard_mapping,
                         StmtKey(StatementAnalyses(d)[sw.stmt]
                                     .standard_mapping)))
           /\ sweepers' =
                 [sweepers EXCEPT ![w] =
                     [sw EXCEPT
                         !.pc = "loop", !.stmt = @ + 1, !.request = {},
                         !.processed_in_this_run =
                             @ \cup {<<l, industry>> : l \in returned}]]
    /\ UNCHANGED <<uavars, libvars, stmtvars, unitvars, workers>>
    /\ UNCHANGED <<ccvars, qvars, label_review_status, stagedvars, discovery>>

\* after the loop: mark_docs_label_review_status(..., 'PENDING_REVIEW')
SweepFinish(w) ==
    /\ sweepers[w].pc = "loop"
    /\ sweepers[w].doc_ids = <<>>
    /\ label_review_status' =
          [d \in DOMAIN label_review_status |->
              IF d \in sweepers[w].docs_to_update_status
              THEN "PENDING_REVIEW" ELSE label_review_status[d]]
    /\ sweepers' = [sweepers EXCEPT ![w] = SweeperIdle]
    /\ UNCHANGED <<uavars, libvars, stmtvars, unitvars, workers>>
    /\ UNCHANGED <<ccvars, qvars, stagedvars, labelvars>>

\* ------------------------------------------------ concurrent phase sweeps
WorkerIdle ==
    [pc |-> "idle", doc_ids |-> <<>>, successful |-> {}]

\* parsed_documents.content of a staged filing has llm_call_1 and llm_call_2,
\* the latter a list
ContentValid(d) == d # 3

get_docs_pending_statement_normalization ==
    {d \in StagedDocs : /\ label_review_status[d] # "NO_RECORD"
                        /\ ~statement_normalized[d]}

\* start of a statement batch: a staging record (empty payload, every flag
\* at its default) for each parsed document that has none, then the list of
\* the documents pending statement normalization
StatementBatchStart(w) ==
    /\ workers[w].pc = "idle"
    /\ LET docs_to_stage ==
               {d \in StagedDocs : label_review_status[d] = "NO_RECORD"}
           doc_ids_to_normalize ==
               get_docs_pending_statement_normalization \cup docs_to_stage
       IN  /\ docs_to_stage \cup doc_ids_to_normalize # {}
           /\ label_review_status' =
                 [d \in DOMAIN label_review_status |->
                     IF d \in docs_to_stage THEN "PENDING"
                     ELSE label_review_status[d]]
           /\ workers' =
                 [workers EXCEPT ![w] =
                     IF doc_ids_to_normalize = {} THEN WorkerIdle
                     ELSE [pc |-> "normalize",
                           doc_ids |-> SortSet(doc_ids_to_normalize),
                           successful |-> {}]]
    /\ UNCHANGED <<uavars, libvars, stmtvars, unitvars, sweepers>>
    /\ UNCHANGED <<ccvars, qvars, stagedvars, labelvars>>

\* normalize_single_document: the payload of one document is written and
\* committed, or the document is counted as failed
NormalizeDocument(w) ==
    /\ workers[w].pc = "normalize"
    /\ workers[w].doc_ids # <<>>
    /\ LET d == Head(workers[w].doc_ids)
       IN  /\ statement_normalized_data' =
                 [statement_normalized_data EXCEPT
                     ![d] = IF ContentValid(d) THEN TRUE ELSE @]
           /\ workers' =
                 [workers EXCEPT
                     ![w].doc_ids = Tail(@),
                     ![w].successful =
                         IF ContentValid(d) THEN @ \cup {d} ELSE @]
    /\ UNCHANGED <<uavars, libvars, statement_normalized, unitvars, sweepers>>
    /\ UNCHANGED <<ccvars, qvars, label_review_status, stagedvars, labelvars>>

\* after the loop: mark_docs_statement_normalized(successful_docs)
StatementBatchFinish(w) ==
    /\ workers[w].pc = "normalize"
    /\ workers[w].doc_ids = <<>>
    /\ statement_normalized' =
          [d \in DOMAIN statement_normalized |->
              IF d \in workers[w].successful THEN TRUE
              ELSE statement_normalized[d]]
    /\ workers' = [workers EXCEPT ![w] = WorkerIdle]
    /\ UNCHANGED <<uavars, libvars, statement_normalized_data, unitvars, sweepers>>
    /\ UNCHANGED <<ccvars, qvars, label_review_status, stagedvars, labelvars>>

\* start of an application pass: the documents in label review of which
\* every label is approved get their final payload in the session
ApplicationStart(w) ==
    /\ workers[w].pc = "idle"
    /\ LET successful_doc_ids ==
               {d \in get_docs_pending_label_review :
                   AllApproved(label_mapping_cache, d)}
       IN  /\ successful_doc_ids # {}
           /\ workers' =
                 [workers EXCEPT ![w] =
                     [pc |-> "commit",
                      doc_ids |-> SortSet(successful_doc_ids),
                      successful |-> successful_doc_ids]]
    /\ UNCHANGED <<uavars, libvars, stmtvars, unitvars, sweepers>>
    /\ UNCHANGED <<ccvars, qvars, label_review_status, stagedvars, labelvars>>

\* session.commit(): the payloads are written
ApplicationCommit(w) ==
    /\ workers[w].pc = "commit"
    /\ label_normalized_data' =
          [d \in DOMAIN label_normalized_data |->
              IF d \in workers[w].successful
              THEN FinalData(label_mapping_cache, d)
              ELSE label_normalized_data[d]]
    /\ workers' = [workers EXCEPT ![w].pc = "mark"]
    /\ UNCHANGED <<uavars, libvars, stmtvars, unitvars, sweepers>>
    /\ UNCHANGED <<ccvars, qvars, label_review_status, unit_review_status,
                   labelvars>>

\* mark_docs_label_review_status(successful_doc_ids, 'APPROVED'), in a
\* session of its own
ApplicationMark(w) ==
    /\ workers[w].pc = "mark"
    /\ label_review_status' =
          [d \in DOMAIN label_review_status |->
              IF d \in workers[w].successful THEN "APPROVED"
              ELSE label_review_status[d]]
    /\ workers' = [workers EXCEPT ![w] = WorkerIdle]
    /\ UNCHANGED <<uavars, libvars, stmtvars, unitvars, sweepers>>
    /\ UNCHANGED <<ccvars, qvars, stagedvars, labelvars>>

\* a sweep ends in an exception or with its process: what it has committed
\* stays, the writes it had not reached are not made
SweepAborts(w) ==
    /\ workers[w].pc # "idle"
    /\ workers' = [workers EXCEPT ![w] = WorkerIdle]
    /\ UNCHANGED <<uavars, libvars, stmtvars, unitvars, sweepers>>
    /\ UNCHANGED <<ccvars, qvars, label_review_status, stagedvars, labelvars>>

\* ------------------------------------------------ statement categorization
\* EXPECTED_STATEMENTS
EXPECTED_STATEMENTS ==
    <<"standalone_pnl", "standalone_balance_sheet", "standalone_cash_flow",
      "consolidated_pnl", "consolidated_balance_sheet",
      "consolidated_cash_flow">>

StandaloneSlots == SubSeq(EXPECTED_STATEMENTS, 1, 3)
ConsolidatedSlots == SubSeq(EXPECTED_STATEMENTS, 4, 6)

\* names the isolator gives to statements, and what statement_mapping can
\* hold for a name: no entry, an empty string, a canonical slot, a value
\* with 'standalone' in it that is no slot, a value with neither word
StatementNames == {"Profit and Loss", "Balance Sheet"}
MappingValues ==
    {"absent", "", "standalone_pnl", "standalone_balance_sheet",
     "consolidated_pnl", "standalone_notes", "segment_results"}

\* `'standalone' in standard_mapping`, `'consolidated' in standard_mapping`
HasStandalone(standard_mapping) ==
    standard_mapping \in Range(StandaloneSlots) \cup {"standalone_notes"}
HasConsolidated(standard_mapping) ==
    standard_mapping \in Range(ConsolidatedSlots)

\* a raw statement block; body stands for its figures
RawStatements == [statement_type : StatementNames, body : {"a", "b"}]

\* the sentinel string of an empty slot
NOT_PROVIDED ==
    [sentinel |-> "NOT_PROVIDED", statement_type |-> NULL, body |-> NULL,
     standard_mapping |-> NULL, index |-> 0]

\* statement.copy() with standard_mapping added; index is the position of
\* the block in raw_statements
StatementWithMapping(raw_statements, statement_mapping, i) ==
    [sentinel |-> NULL,
     statement_type |-> raw_statements[i].statement_type,
     body |-> raw_statements[i].body,
     standard_mapping |-> statement_mapping[raw_statements[i].statement_type],
     index |-> i]

\* `if not standard_mapping: continue`
Mapped(raw_statements, statement_mapping) ==
    SelectSeq([i \in DOMAIN raw_statements |->
                  StatementWithMapping(raw_statements, statement_mapping, i)],
              LAMBDA st : st.standard_mapping \notin {"absent", ""})

\* next((stmt for stmt in statements if ...), None) and the sentinel; the
\* second form takes the last match
FoundStmtLast(statements, expected) ==
    LET hits == SelectSeq(statements,
                          LAMBDA st : st.standard_mapping = expected)
    IN  IF hits = <<>> THEN NOT_PROVIDED ELSE hits[Len(hits)]

FoundStmt(statements, expected) ==
    LET hits == SelectSeq(statements,
                          LAMBDA st : st.standard_mapping = expected)
    IN  IF hits = <<>> THEN NOT_PROVIDED ELSE Head(hits)

\* the filing dict of one scope; the second form has a key only for a
\* statement that was found
FilingFoundOnly(statements, slots) ==
    [keys |-> {slots[k] : k \in {j \in DOMAIN slots :
                   FoundStmt(statements, slots[j]) # NOT_PROVIDED}},
     val |-> [e \in Range(slots) |-> FoundStmt(statements, e)]]

Filing(statements, slots) ==
    [keys |-> Range(slots),
     val |-> [e \in Range(slots) |-> FoundStmt(statements, e)]]

\* a form that notes a statement as found in the standalone branch only
categorize_statementsFoundInBranch(raw_statements, statement_mapping) ==
    LET mapped == Mapped(raw_statements, statement_mapping)
        standalone_statements ==
            SelectSeq(mapped, LAMBDA st : HasStandalone(st.standard_mapping))
        consolidated_statements ==
            SelectSeq(mapped,
                      LAMBDA st : /\ ~HasStandalone(st.standard_mapping)
                                  /\ HasConsolidated(st.standard_mapping))
        found_statements ==
            {standalone_statements[i].standard_mapping :
                i \in DOMAIN standalone_statements}
    IN  [standalone |-> Filing(standalone_statements, StandaloneSlots),
         consolidated |-> Filing(consolidated_statements, ConsolidatedSlots),
         found_statements |-> found_statements,
         missing_statements |->
             SelectSeq(EXPECTED_STATEMENTS,
                       LAMBDA e : e \notin found_statements)]

categorize_statements(raw_statements, statement_mapping) ==
    LET mapped == Mapped(raw_statements, statement_mapping)
        standalone_statements ==
            SelectSeq(mapped, LAMBDA st : HasStandalone(st.standard_mapping))
        consolidated_statements ==
            SelectSeq(mapped,
                      LAMBDA st : /\ ~HasStandalone(st.standard_mapping)
                                  /\ HasConsolidated(st.standard_mapping))
        found_statements == {mapped[i].standard_mapping : i \in DOMAIN mapped}
    IN  [standalone |-> Filing(standalone_statements, StandaloneSlots),
         consolidated |-> Filing(consolidated_statements, ConsolidatedSlots),
         found_statements |-> found_statements,
         missing_statements |->
             SelectSeq(EXPECTED_STATEMENTS,
                       LAMBDA e : e \notin found_statements)]

NoCategories ==
    [standalone |-> [keys |-> {}, val |-> <<>>],
     consolidated |-> [keys |-> {}, val |-> <<>>],
     found_statements |-> {}, missing_statements |-> <<>>]

CategorizeCall ==
    /\ cs_result = NoCategories
    /\ cs_result' =
          categorize_statements(cs_raw_statements, cs_statement_mapping)
    /\ UNCHANGED <<cs_raw_statements, cs_statement_mapping, pbvars, llm_call,
                   playbook_readable, doc_kind>>
    /\ UNCHANGED <<uavars, stmtvars, unitvars, sweepvars>>
    /\ UNCHANGED <<ccvars, qvars, label_review_status, stagedvars, labelvars>>

\* ------------------------------------------------------- taxonomy source
\* ids of the leaves of the taxonomy trees, and the id of a heading
LeafIds == {1, 2}
HeadingId == NoId

\* a childless node: 'children' absent, null or empty; 'extractable' absent
\* or a boolean
LeafNodes ==
    [id : LeafIds, extractable : {"absent", "True", "False"},
     children : {<<>>}]

\* an abstract node with its children
HeadingNodes ==
    [id : {HeadingId}, extractable : {"absent", "False"},
     children : SeqsUpTo(LeafNodes, MaxChildren) \ {<<>>}]

\* the 'nodes' list of a statement of the taxonomy
Trees == SeqsUpTo(LeafNodes \cup HeadingNodes, MaxRoots)

\* 'nodes' lists without headings, of leaves that are unmarked or excluded
FlatTrees ==
    SeqsUpTo({n \in LeafNodes : n.extractable # "True"}, MaxRoots)

\* doc.get('statement') of the documents of the source
StatementKeys ==
    {"pnl", "standalone_pnl", "cash_flow_direct", "cash_flow_indirect",
     "notes", "absent"}

\* `if 'pnl' in statement_key` ... `else: normalized_key = statement_key`
NormalizedKey(statement_key) ==
    IF statement_key \in {"pnl", "standalone_pnl"} THEN "pnl"
    ELSE IF statement_key \in {"cash_flow_direct", "cash_flow_indirect"}
         THEN "cash_flow"
    ELSE statement_key

NormalizedKeys == {NormalizedKey(k) : k \in StatementKeys \ {"absent"}}

RECURSIVE get_leaf_ids_recursive(_)
\* _get_leaf_ids_recursive
get_leaf_ids_recursive(nodes) ==
    IF nodes = <<>> THEN <<>>
    ELSE LET node == Head(nodes)
         IN  (IF node.children = <<>>
              THEN IF node.extractable # "False" THEN <<node.id>> ELSE <<>>
              ELSE get_leaf_ids_recursive(node.children))
             \o get_leaf_ids_recursive(Tail(nodes))

RECURSIVE flatten_leaves(_)
\* StatementPlaybookLoader._flatten_leaves
flatten_leaves(nodes) ==
    IF nodes = <<>> THEN <<>>
    ELSE LET n == Head(nodes)
         IN  (IF n.children # <<>> THEN flatten_leaves(n.children)
              ELSE <<n.id>>)
             \o flatten_leaves(Tail(nodes))

\* a dict from keys to lists of ids
EmptyDict(Keys) == [keys |-> {}, val |-> [k \in Keys |-> <<>>]]

DictPut(dict, key, value) ==
    [keys |-> dict.keys \cup {key}, val |-> [dict.val EXCEPT ![key] = value]]

\* playbook_leaf_nodes.get(normalized_key, [])
DictGet(dict, key) == IF key \in dict.keys THEN dict.val[key] ELSE <<>>

RECURSIVE LoadLeafNodes(_, _)
\* the loop of load_loaded over the documents
LoadLeafNodes(docs, loaded) ==
    IF docs = <<>> THEN loaded
    ELSE LET doc == Head(docs)
             normalized_key == NormalizedKey(doc.statement)
             leaf_nodes == get_leaf_ids_recursive(doc.nodes)
             existing_leaves ==
                 Range(DictGet(loaded, normalized_key))
         IN  LoadLeafNodes(
                 Tail(docs),
                 IF doc.statement = "absent" THEN loaded
                 ELSE IF normalized_key = "cash_flow"
                 THEN DictPut(loaded, normalized_key,
                              SortSet(existing_leaves \cup Range(leaf_nodes)))
                 ELSE DictPut(loaded, normalized_key,
                              leaf_nodes))

load_playbook_leaf_nodes(docs) == LoadLeafNodes(docs, EmptyDict(NormalizedKeys))

RECURSIVE LoadAllStatements(_, _)
\* StatementPlaybookLoader._load_all_statements: trees[statement] = nodes
LoadAllStatements(docs, trees) ==
    IF docs = <<>> THEN trees
    ELSE LET doc == Head(docs)
         IN  LoadAllStatements(
                 Tail(docs),
                 IF doc.statement # "absent" /\ doc.nodes # <<>>
                 THEN [keys |-> trees.keys \cup {doc.statement},
                       val |-> [trees.val EXCEPT ![doc.statement] = doc.nodes]]
                 ELSE trees)

\* StatementPlaybookLoader.__init__: statement_leaves; a source that cannot
\* be read gives no documents
statement_leaves(docs, readable) ==
    LET trees == LoadAllStatements(
                     IF readable THEN docs ELSE <<>>,
                     EmptyDict(StatementKeys \ {"absent"}))
    IN  [keys |-> trees.keys,
         val |-> [k \in StatementKeys \ {"absent"} |->
                     flatten_leaves(trees.val[k])]]

\* before the source is loaded
NotLoaded == [keys |-> {NULL}, val |-> <<>>]

\* the taxonomy source is loaded by both loaders
LoadPlaybook ==
    /\ pb_leaf_nodes = NotLoaded
    /\ pb_leaf_nodes' = load_playbook_leaf_nodes(pb_docs)
    /\ pb_statement_leaves' = statement_leaves(pb_docs, TRUE)
    /\ UNCHANGED <<csvars, pb_docs, llm_call, playbook_readable, doc_kind>>
    /\ UNCHANGED <<uavars, stmtvars, unitvars, sweepvars>>
    /\ UNCHANGED <<ccvars, qvars, label_review_status, stagedvars, labelvars>>

\* ------------------------------------------------------------ oracle client
\* what client.models.generate_content does in one attempt: a response with
\* text, a response whose text is empty or None, an exception
Responses == {"text", "empty", "none", "raise"}

\* the call has not been made
LlmNotCalled ==
    [pc |-> "idle", use_json_mode |-> TRUE, attempt |-> 0, log |-> <<>>,
     response |-> NULL]

\* `if attempt + 1 == LLM_MAX_RETRIES`, and the test one attempt late
IsLastAttemptLate(attempt) == attempt = LLM_MAX_RETRIES

IsLastAttempt(attempt) == attempt + 1 = LLM_MAX_RETRIES

\* wait_time
WaitTime(attempt) == LLM_INITIAL_BACKOFF * (2 ^ attempt)

\* call_gemini_with_retry is entered
call_gemini_with_retry(use_json_mode) ==
    /\ llm_call = LlmNotCalled
    /\ llm_call' = [LlmNotCalled EXCEPT !.pc = "loop",
                                        !.use_json_mode = use_json_mode]
    /\ UNCHANGED <<csvars, pbvars, playbook_readable, doc_kind>>
    /\ UNCHANGED <<uavars, stmtvars, unitvars, sweepvars>>
    /\ UNCHANGED <<ccvars, qvars, label_review_status, stagedvars, labelvars>>

\* one iteration of `for attempt in range(LLM_MAX_RETRIES)`: the request,
\* then the return, the raise, or the sleep before the next iteration; the
\* loop running out raises RuntimeError
GenerateContent(response) ==
    /\ llm_call.pc = "loop"
    /\ LET c == llm_call
           attempted ==
               Append(c.log, [kind |-> "attempt", response |-> response,
                              wait_time |-> 0])
       IN  llm_call' =
              IF c.attempt >= LLM_MAX_RETRIES
              THEN [c EXCEPT !.pc = "raised"]
              ELSE IF response = "text"
              THEN [c EXCEPT !.pc = "returned", !.log = attempted,
                             !.response =
                                 IF c.use_json_mode THEN "cleaned text"
                                 ELSE "stripped text"]
              ELSE IF IsLastAttempt(c.attempt)
              THEN [c EXCEPT !.pc = "raised", !.log = attempted]
              ELSE [c EXCEPT
                       !.attempt = @ + 1,
                       !.log = Append(attempted,
                                      [kind |-> "sleep", response |-> NULL,
                                       wait_time |-> WaitTime(c.attempt)])]
    /\ UNCHANGED <<csvars, pbvars, playbook_readable, doc_kind>>
    /\ UNCHANGED <<uavars, stmtvars, unitvars, sweepvars>>
    /\ UNCHANGED <<ccvars, qvars, label_review_status, stagedvars, labelvars>>

\* ------------------------------------------------------- specifications
CategorizeIdle ==
    /\ cs_raw_statements = <<>>
    /\ cs_statement_mapping = [n \in StatementNames |-> "absent"]
    /\ cs_result = NoCategories

PlaybookIdle ==
    /\ pb_docs = <<>>
    /\ pb_leaf_nodes = NotLoaded
    /\ pb_statement_leaves = NotLoaded

LlmIdle == llm_call = LlmNotCalled

LibIdle ==
    /\ CategorizeIdle
    /\ PlaybookIdle
    /\ LlmIdle
    /\ playbook_readable = TRUE
    /\ doc_kind = SampleFilings

CompletenessIdle ==
    /\ cc_data = NoneData
    /\ cc_expected = <<>>
    /\ cc_result = NoResult

PipeIdle ==
    /\ statement_normalized = [d \in AllDocs |-> FALSE]
    /\ statement_normalized_data = [d \in AllDocs |-> FALSE]
    /\ unit_normalized_data = [d \in AllDocs |-> NoUnitAnalysis]
    /\ unit_review_queue = [d \in AllDocs |-> NoQueueRow]
    /\ unit_oracle_calls = [d \in AllDocs |-> 0]
    /\ unit_swept = [d \in AllDocs |-> "none"]
    /\ unit_applied = {}
    /\ sweepers = [w \in Sweepers |-> SweeperIdle]
    /\ workers = [w \in Sweepers |-> WorkerIdle]

ReviewIdle ==
    /\ ua_analysis = NoUnitAnalysis
    /\ ua_result = NoReviewResult

LabelIdle ==
    /\ unit_review_status = [d \in AllDocs |-> "PENDING"]
    /\ label_normalized_data = [d \in AllDocs |-> NoFinalData]
    /\ label_mapping_cache = [k \in CacheKeys |-> AbsentMapping]
    /\ discovery = DiscoveryIdle

QualityIdle ==
    /\ runs = <<>>
    /\ runs0 = <<>>
    /\ sweeps = 0
    /\ parsed = [d \in Docs |-> PdfIsolated]

\* the completeness check applied to every input
InitCompleteness ==
    /\ LibIdle
    /\ cc_data \in StatementDatas
    /\ cc_expected \in ExpectedLists
    /\ cc_result = NoResult
    /\ QualityIdle
    /\ label_review_status = [d \in AllDocs |-> "NO_RECORD"]
    /\ LabelIdle
    /\ PipeIdle
    /\ ReviewIdle

NextCompleteness == CompletenessCall

SpecCompleteness == InitCompleteness /\ [][NextCompleteness]_vars

\* the waterfall sweep applied to every table
InitSweep ==
    /\ LibIdle
    /\ CompletenessIdle
    /\ \E shapes \in [1..NumRuns -> RowShapes] :
          runs = [i \in 1..NumRuns |-> RowOf(i, shapes[i])]
    /\ runs0 = runs
    /\ sweeps = 0
    /\ parsed = [d \in Docs |-> PdfIsolated]
    /\ label_review_status = [d \in AllDocs |-> "NO_RECORD"]
    /\ LabelIdle
    /\ PipeIdle
    /\ ReviewIdle

NextSweep == SweepOnce

SpecSweep == InitSweep /\ [][NextSweep]_vars

\* the quality engine over PDF filings and API filings; the staging records
\* of the normalization pipeline are in any of the states it leaves them in
Init ==
    /\ LibIdle
    /\ CompletenessIdle
    /\ runs = <<>>
    /\ runs0 = <<>>
    /\ sweeps = 0
    /\ parsed \in [Docs -> {PdfIsolated, ApiParsed}]
    /\ label_review_status \in
          [AllDocs -> {"NO_RECORD", "PENDING", "PENDING_REVIEW", "APPROVED"}]
    /\ \A d \in Docs :
          parsed[d] = PdfIsolated => label_review_status[d] = "NO_RECORD"
    /\ \A d \in AllDocs \ Docs : label_review_status[d] = "NO_RECORD"
    /\ LabelIdle
    /\ PipeIdle
    /\ ReviewIdle

Next ==
    \/ \E d \in Docs : process_single_document_extraction(d)
    \/ create_quality_engine_runs_for_new_documents
    \/ SweepPipeline
    \/ run_stage_1a_checks
    \/ main

Spec == Init /\ [][Next]_vars

\* the quality engine over one PDF filing that can be sent back to the
\* extractor; the other filings are API filings, which are never extracted
InitRecover ==
    /\ LibIdle
    /\ CompletenessIdle
    /\ runs = <<>>
    /\ runs0 = <<>>
    /\ sweeps = 0
    /\ parsed = [d \in Docs |-> IF d = 1 THEN PdfIsolated ELSE ApiParsed]
    /\ label_review_status = [d \in AllDocs |-> "NO_RECORD"]
    /\ LabelIdle
    /\ PipeIdle
    /\ ReviewIdle

NextRecover ==
    \/ Next
    \/ \E d \in Docs : ResubmitForExtraction(d)

SpecRecover == InitRecover /\ [][NextRecover]_vars

\* the label phase of the normalization pipeline over the staged filings,
\* from the state unit normalization leaves them in
InitLabel ==
    /\ LibIdle
    /\ CompletenessIdle
    /\ QualityIdle
    /\ label_review_status =
          [d \in AllDocs |-> IF d \in StagedDocs THEN "PENDING"
                             ELSE "NO_RECORD"]
    /\ unit_review_status \in
          [AllDocs -> {"PENDING", "AUTO_APPROVED", "PENDING_REVIEW",
                       "APPROVED"}]
    /\ \A d \in AllDocs \ StagedDocs : unit_review_status[d] = "PENDING"
    /\ \A d \in StagedDocs : unit_review_status[d] # "PENDING"
    /\ label_normalized_data = [d \in AllDocs |-> NoFinalData]
    /\ label_mapping_cache = [k \in CacheKeys |-> AbsentMapping]
    /\ discovery = DiscoveryIdle
    /\ PipeIdle
    /\ ReviewIdle

NextLabel ==
    \/ \E allow_llm \in BOOLEAN : run_label_normalizer_discovery(allow_llm)
    \/ DiscoveryDoc
    \/ DiscoveryFinish
    \/ \E key \in CacheKeys :
          \E edited_label \in
                {NoId, NullWord} \cup
                ({label_mapping_cache[key].normalized_label} \cap Ids) :
             approveLabel(key, edited_label)
    \/ \E key \in CacheKeys : rejectLabel(key)
    \/ run_label_normalizer_application

SpecLabel == InitLabel /\ [][NextLabel]_vars

\* the unit phase over staged filings: some pending unit normalization,
\* some queued for review
InitUnit ==
    /\ LibIdle
    /\ CompletenessIdle
    /\ QualityIdle
    /\ label_mapping_cache = [k \in CacheKeys |-> AbsentMapping]
    /\ discovery = DiscoveryIdle
    /\ ReviewIdle
    /\ label_review_status =
          [d \in AllDocs |-> IF d \in StagedDocs THEN "PENDING"
                             ELSE "NO_RECORD"]
    /\ statement_normalized \in [AllDocs -> BOOLEAN]
    /\ \A d \in AllDocs \ StagedDocs : ~statement_normalized[d]
    /\ statement_normalized_data = statement_normalized
    /\ \E queued \in [StagedDocs -> {"no", "one_low", "flagged"}] :
          /\ \A d \in StagedDocs :
                queued[d] # "no" =>
                    /\ statement_normalized[d]
                    /\ Truthy(determine_review_requirement(
                                  AnalysisFor(d, queued[d])).requires_review)
          /\ unit_review_queue =
                [d \in AllDocs |->
                    IF d \in StagedDocs /\ queued[d] # "no"
                    THEN create_unit_review_record(
                             [x \in AllDocs |-> NoQueueRow], d,
                             AnalysisFor(d, queued[d]),
                             SuspiciousFigures(AnalysisFor(d, queued[d]), 1))[d]
                    ELSE NoQueueRow]
    /\ unit_review_status =
          [d \in AllDocs |-> IF unit_review_queue[d].exists
                             THEN "PENDING_REVIEW" ELSE "PENDING"]
    /\ label_normalized_data = [d \in AllDocs |-> NoFinalData]
    /\ unit_normalized_data = [d \in AllDocs |-> NoUnitAnalysis]
    /\ unit_oracle_calls = [d \in AllDocs |-> 0]
    /\ unit_swept = [d \in AllDocs |-> "none"]
    /\ unit_applied = {}
    /\ sweepers = [w \in Sweepers |-> SweeperIdle]
    /\ workers = [w \in Sweepers |-> WorkerIdle]

NextUnit ==
    \/ \E allow_llm \in BOOLEAN :
          \E outcomes \in
                {o \in [StagedDocs -> UnitOutcomes] :
                    \A d \in StagedDocs :
                        (allow_llm /\ d \in get_docs_pending_unit_normalization)
                        \/ o[d] = "all_high"} :
             run_unit_normalizer_discovery(allow_llm, outcomes)
    \/ \E d \in StagedDocs, corrections \in {NULL, "corrected"} :
          approve_unit_review(d, corrections)
    \/ run_unit_normalizer_application

SpecUnit == InitUnit /\ [][NextUnit]_vars

\* label discovery run by several sweeps at once, with the reviewer at work
InitRace ==
    /\ CategorizeIdle
    /\ PlaybookIdle
    /\ LlmIdle
    /\ playbook_readable \in BOOLEAN
    /\ doc_kind = SampleFilings
    /\ CompletenessIdle
    /\ QualityIdle
    /\ ReviewIdle
    /\ PipeIdle
    /\ label_review_status =
          [d \in AllDocs |-> IF d \in 1..NumRaceDocs THEN "PENDING"
                             ELSE "NO_RECORD"]
    /\ unit_review_status =
          [d \in AllDocs |-> IF d \notin StagedDocs THEN "PENDING"
                             ELSE IF d % 2 = 1 THEN "AUTO_APPROVED"
                             ELSE "APPROVED"]
    /\ label_normalized_data = [d \in AllDocs |-> NoFinalData]
    /\ label_mapping_cache = [k \in CacheKeys |-> AbsentMapping]
    /\ discovery = DiscoveryIdle

NextRace ==
    \/ \E w \in Sweepers, allow_llm \in BOOLEAN : SweepStart(w, allow_llm)
    \/ \E w \in Sweepers : SweepStep(w)
    \/ \E w \in Sweepers, answer \in RaceAnswers : OracleReturn(w, answer)
    \/ \E w \in Sweepers : SweepFinish(w)
    \/ \E key \in CacheKeys :
          \E edited_label \in
                {NoId} \cup
                ({label_mapping_cache[key].normalized_label} \cap Ids) :
             approveLabel(key, edited_label)
    \/ \E key \in CacheKeys : rejectLabel(key)

SpecRace == InitRace /\ [][NextRace]_vars

\* one discovery sweep over filings of which some are skipped as a whole
\* and some have statements that are skipped
InitSkip ==
    /\ CategorizeIdle
    /\ PlaybookIdle
    /\ LlmIdle
    /\ playbook_readable = TRUE
    /\ doc_kind \in [AllDocs -> {1} \cup SkippedKinds \cup {MixedKind}]
    /\ CompletenessIdle
    /\ QualityIdle
    /\ ReviewIdle
    /\ PipeIdle
    /\ label_review_status \in [AllDocs -> {"PENDING", "NO_RECORD"}]
    /\ \A d \in AllDocs :
          label_review_status[d] = "NO_RECORD" <=> d \notin StagedDocs
    /\ unit_review_status =
          [d \in AllDocs |-> IF d \notin StagedDocs THEN "PENDING"
                             ELSE "AUTO_APPROVED"]
    /\ label_normalized_data = [d \in AllDocs |-> NoFinalData]
    /\ label_mapping_cache = [k \in CacheKeys |-> AbsentMapping]
    /\ discovery = DiscoveryIdle

NextSkip ==
    \/ \E allow_llm \in BOOLEAN : SweepStart(1, allow_llm)
    \/ SweepStep(1)
    \/ \E answer \in RaceAnswers : OracleReturn(1, answer)
    \/ SweepFinish(1)

SpecSkip == InitSkip /\ [][NextSkip]_vars

\* the same sweeps with an oracle that may also return a key it was not
\* asked about
InitEcho == InitRace

NextEcho ==
    \/ NextRace
    \/ \E w \in Sweepers : OracleEcho(w)

SpecEcho == InitEcho /\ [][NextEcho]_vars

\* the cache after a review of every label of the staged filings
ReviewedCache(status) ==
    [k \in CacheKeys |-> [status |-> status,
                          normalized_label |-> Suggest(k[1]),
                          source_context |->
                              SourceContext(1, "standalone_pnl", "pnl")]]

\* statement batches and application passes, write by write, over filings
\* that are parsed, staged, or in label review
InitPhases ==
    /\ LibIdle
    /\ CompletenessIdle
    /\ QualityIdle
    /\ ReviewIdle
    /\ label_review_status \in
          [AllDocs -> {"NO_RECORD", "PENDING", "PENDING_REVIEW"}]
    /\ \A d \in AllDocs \ StagedDocs : label_review_status[d] = "NO_RECORD"
    /\ statement_normalized =
          [d \in AllDocs |-> label_review_status[d] = "PENDING_REVIEW"]
    /\ statement_normalized_data = statement_normalized
    /\ unit_review_status =
          [d \in AllDocs |-> IF label_review_status[d] = "PENDING_REVIEW"
                             THEN "AUTO_APPROVED" ELSE "PENDING"]
    /\ unit_normalized_data = [d \in AllDocs |-> NoUnitAnalysis]
    /\ unit_review_queue = [d \in AllDocs |-> NoQueueRow]
    /\ unit_oracle_calls = [d \in AllDocs |-> 0]
    /\ unit_swept = [d \in AllDocs |-> "none"]
    /\ unit_applied = {}
    /\ sweepers = [w \in Sweepers |-> SweeperIdle]
    /\ workers = [w \in Sweepers |-> WorkerIdle]
    /\ label_normalized_data = [d \in AllDocs |-> NoFinalData]
    /\ label_mapping_cache \in
          {ReviewedCache("APPROVED"), ReviewedCache("PENDING_REVIEW")}
    /\ discovery = DiscoveryIdle

NextPhases ==
    \/ \E w \in Sweepers : StatementBatchStart(w)
    \/ \E w \in Sweepers : NormalizeDocument(w)
    \/ \E w \in Sweepers : StatementBatchFinish(w)
    \/ \E w \in Sweepers : ApplicationStart(w)
    \/ \E w \in Sweepers : ApplicationCommit(w)
    \/ \E w \in Sweepers : ApplicationMark(w)
    \/ \E w \in Sweepers : SweepAborts(w)

SpecPhases == InitPhases /\ [][NextPhases]_vars

\* categorize_statements applied to every list of blocks and every mapping
InitCategorize ==
    /\ CompletenessIdle
    /\ QualityIdle
    /\ ReviewIdle
    /\ label_review_status = [d \in AllDocs |-> "NO_RECORD"]
    /\ LabelIdle
    /\ PipeIdle
    /\ PlaybookIdle
    /\ LlmIdle
    /\ playbook_readable = TRUE
    /\ doc_kind = SampleFilings
    /\ cs_raw_statements \in SeqsUpTo(RawStatements, MaxRaw)
    /\ cs_statement_mapping \in [StatementNames -> MappingValues]
    /\ cs_result = NoCategories

NextCategorize == CategorizeCall

SpecCategorize == InitCategorize /\ [][NextCategorize]_vars

\* the loaders applied to a source of one statement with any tree, and to
\* sources of several statements with flat trees
InitPlaybook ==
    /\ CompletenessIdle
    /\ QualityIdle
    /\ ReviewIdle
    /\ label_review_status = [d \in AllDocs |-> "NO_RECORD"]
    /\ LabelIdle
    /\ PipeIdle
    /\ CategorizeIdle
    /\ LlmIdle
    /\ playbook_readable = TRUE
    /\ doc_kind = SampleFilings
    /\ \/ \E nodes \in Trees :
             pb_docs = <<[statement |-> "pnl", nodes |-> nodes]>>
       \/ pb_docs \in SeqsUpTo([statement : StatementKeys, nodes : FlatTrees],
                               MaxPlaybookDocs)
    /\ pb_leaf_nodes = NotLoaded
    /\ pb_statement_leaves = NotLoaded

NextPlaybook == LoadPlaybook

SpecPlaybook == InitPlaybook /\ [][NextPlaybook]_vars

\* the sweeps of the three phases in any order (normalization_engine.main
\* runs them one after the other), over staging records in every state in
\* which the phases are in order
PhaseStates ==
    {"no_record", "staged", "statement_normalized", "unit_review",
     "unit_auto_approved", "unit_approved", "label_review"}

InitPipeline ==
    /\ LibIdle
    /\ CompletenessIdle
    /\ QualityIdle
    /\ ReviewIdle
    /\ \E phase \in [StagedDocs -> PhaseStates] :
          /\ \A d \in StagedDocs :
                phase[d] = "unit_review" =>
                    Truthy(determine_review_requirement(
                               AnalysisFor(d, "one_low")).requires_review)
          /\ label_review_status =
                [d \in AllDocs |->
                    IF d \notin StagedDocs \/ phase[d] = "no_record"
                    THEN "NO_RECORD"
                    ELSE IF phase[d] = "label_review" THEN "PENDING_REVIEW"
                    ELSE "PENDING"]
          /\ statement_normalized =
                [d \in AllDocs |->
                    d \in StagedDocs /\ phase[d] \notin {"no_record", "staged"}]
          /\ unit_review_status =
                [d \in AllDocs |->
                    IF d \notin StagedDocs THEN "PENDING"
                    ELSE IF phase[d] = "unit_review" THEN "PENDING_REVIEW"
                    ELSE IF phase[d] = "unit_approved" THEN "APPROVED"
                    ELSE IF phase[d] \in {"unit_auto_approved", "label_review"}
                    THEN "AUTO_APPROVED"
                    ELSE "PENDING"]
          /\ unit_review_queue =
                [d \in AllDocs |->
                    IF d \in StagedDocs /\ phase[d] = "unit_review"
                    THEN create_unit_review_record(
                             [x \in AllDocs |-> NoQueueRow], d,
                             AnalysisFor(d, "one_low"),
                             SuspiciousFigures(AnalysisFor(d, "one_low"), 1))[d]
                    ELSE NoQueueRow]
    /\ statement_normalized_data = statement_normalized
    /\ unit_normalized_data = [d \in AllDocs |-> NoUnitAnalysis]
    /\ unit_oracle_calls = [d \in AllDocs |-> 0]
    /\ unit_swept = [d \in AllDocs |-> "none"]
    /\ unit_applied = {}
    /\ sweepers = [w \in Sweepers |-> SweeperIdle]
    /\ workers = [w \in Sweepers |-> WorkerIdle]
    /\ label_normalized_data = [d \in AllDocs |-> NoFinalData]
    /\ label_mapping_cache = [k \in CacheKeys |-> AbsentMapping]
    /\ discovery = DiscoveryIdle

NextPipeline ==
    \/ StatementBatchStart(1)
    \/ NormalizeDocument(1)
    \/ StatementBatchFinish(1)
    \/ \E allow_llm \in BOOLEAN :
          run_unit_normalizer_discovery(
              allow_llm, [d \in StagedDocs |-> "all_high"])
    \/ \E d \in StagedDocs : approve_unit_review(d, NULL)
    \/ run_unit_normalizer_application
    \/ \E allow_llm \in BOOLEAN : run_label_normalizer_discovery(allow_llm)
    \/ DiscoveryDoc
    \/ DiscoveryFinish
    \/ \E key \in CacheKeys : approveLabel(key, NoId)
    \/ run_label_normalizer_application

SpecPipeline == InitPipeline /\ [][NextPipeline]_vars

\* one oracle call with every course of its attempts
InitLlm ==
    /\ CompletenessIdle
    /\ QualityIdle
    /\ ReviewIdle
    /\ label_review_status = [d \in AllDocs |-> "NO_RECORD"]
    /\ LabelIdle
    /\ PipeIdle
    /\ LibIdle

NextLlm ==
    \/ \E use_json_mode \in BOOLEAN : call_gemini_with_retry(use_json_mode)
    \/ \E response \in Responses : GenerateContent(response)

SpecLlm == InitLlm /\ [][NextLlm]_vars

\* determine_review_requirement applied to every oracle analysis
InitReview ==
    /\ LibIdle
    /\ CompletenessIdle
    /\ QualityIdle
    /\ label_review_status = [d \in AllDocs |-> "NO_RECORD"]
    /\ LabelIdle
    /\ PipeIdle
    /\ ua_analysis \in UnitAnalyses
    /\ ua_result = NoReviewResult

NextReview == ReviewRequirementCall

SpecReview == InitReview /\ [][NextReview]_vars

\* ----------------------------------------------------------------- claims
\* the stage-1 drift the sweep looks for: PASSED with a stamp that differs
StampDrifted(r) ==
    /\ r.stage_status[1] = "PASSED"
    /\ r.stage_version[1] \notin {NULL, CURRENT_STAGE_1_VERSION}

\* C1: after one sweep, every run that had stage 1 PASSED at a stamped
\* version other than the current one has stage 1 and every later stage
\* PENDING with the version cleared, and carries the reset reason.
C1_WaterfallResets ==
    sweeps >= 1 =>
        \A i \in DOMAIN runs0 :
            StampDrifted(runs0[i]) =>
                /\ \A k \in Stages :
                      /\ runs[i].stage_status[k] = "PENDING"
                      /\ runs[i].stage_version[k] = NULL
                /\ runs[i].failure_reason = <<RESET_REASON_S1>>

C1_Witness ==
    /\ sweeps = 1
    /\ \E i \in DOMAIN runs0 :
          /\ StampDrifted(runs0[i])
          /\ runs0[i].stage_status[StageCount] = "PASSED"
          /\ runs[i].stage_status[StageCount] = "PENDING"
          /\ runs[i].stage_version[StageCount] = NULL

\* C2: the sweep changes nothing else: the table keeps its rows, and a run
\* without a PASSED stage 1 stamped at another version (PENDING, failed,
\* PASSED at the current version) is left exactly as it was, failure reason
\* and details included.
C2_SweepFrame ==
    sweeps >= 1 =>
        /\ Len(runs) = Len(runs0)
        /\ \A i \in DOMAIN runs0 :
              ~StampDrifted(runs0[i]) => runs[i] = runs0[i]

C2_Witness ==
    /\ sweeps = 1
    /\ \E i, j \in DOMAIN runs0 :
          /\ StampDrifted(runs0[i])
          /\ runs[i] # runs0[i]
          /\ runs0[j].stage_status[1] = "COMPLETENESS_ERROR"
          /\ runs0[j].stage_version[1] # NULL
          /\ runs0[j].failure_reason # NoReason
          /\ runs[j] = runs0[j]

\* C3: the sweep is idempotent: a sweep that follows another sweep, with no
\* other operation in between, leaves the table as the first one left it.
C3_SweepIdempotent == [][sweeps >= 1 => runs' = runs]_vars

C3_Witness ==
    /\ sweeps = 2
    /\ runs # runs0

IsSortedListOf(s, S) ==
    /\ Range(s) = S
    /\ \A i, j \in DOMAIN s : i < j => s[i] < s[j]

\* ids of the entries of the id/value list whose id is set
ListedIds ==
    {id \in Ids : \E i \in DOMAIN cc_data.normalized_figures :
                      cc_data.normalized_figures[i].playbook_id = id}

\* C5: for a payload with an id/value list, with E the expected ids and P
\* the ids present in the list: SUCCESS iff E is a subset of P, otherwise
\* FAILURE with missing_ids the sorted list of E minus P; unexpected_ids is
\* the sorted list of P minus E exactly when that is non-empty, and it never
\* decides the status.
C5_CompletenessCorrect ==
    (cc_result # NoResult /\ "normalized_figures" \in cc_data.keys) =>
        LET E == Range(cc_expected)
            P == ListedIds
            d == cc_result.details
        IN  /\ cc_result.status = IF E \subseteq P THEN "SUCCESS" ELSE "FAILURE"
            /\ cc_result.status = "FAILURE" =>
                  /\ "missing_ids" \in d.keys
                  /\ IsSortedListOf(d.missing_ids, E \ P)
            /\ P \ E # {} =>
                  /\ "unexpected_ids" \in d.keys
                  /\ IsSortedListOf(d.unexpected_ids, P \ E)
            /\ P \ E = {} => "unexpected_ids" \notin d.keys

C5_Witness ==
    /\ cc_result.status = "FAILURE"
    /\ cc_expected = <<3, 1>>
    /\ ListedIds = {2}
    /\ cc_result.details.missing_ids = <<1, 3>>
    /\ cc_result.details.unexpected_ids = <<2>>

\* C6: for a payload with no id/value list (None, empty, or without the
\* list key) the result is FAILURE with missing_ids the expected list in
\* full, for every expected list, the empty one included.
C6_NoListIsFailure ==
    (cc_result # NoResult /\ "normalized_figures" \notin cc_data.keys) =>
        /\ cc_result.status = "FAILURE"
        /\ "missing_ids" \in cc_result.details.keys
        /\ cc_result.details.missing_ids = cc_expected

C6_Witness ==
    /\ cc_result.status = "FAILURE"
    /\ cc_data = ErrorDictData
    /\ cc_expected = <<>>

\* C7: only entries that carry a value count as present: an expected id
\* that no entry carries with a value is reported in missing_ids.
C7_PresenceNeedsValue ==
    (cc_result # NoResult /\ "normalized_figures" \in cc_data.keys) =>
        \A id \in Range(cc_expected) :
            (~\E i \in DOMAIN cc_data.normalized_figures :
                 /\ cc_data.normalized_figures[i].playbook_id = id
                 /\ cc_data.normalized_figures[i].value # NULL)
            => /\ cc_result.status = "FAILURE"
               /\ id \in Range(cc_result.details.missing_ids)

\* C8: a document whose stage run has left stage-1 PENDING has
\* label_review_status = APPROVED in its staging record.
C8_OnlyApprovedChecked ==
    \A i \in DOMAIN runs :
        runs[i].stage_status[1] # "PENDING" =>
            label_review_status[runs[i].doc_id] = "APPROVED"

\* the cache status of one (raw label, industry) pair; ABSENT: no entry
CacheStatusOf(raw_label, industry) ==
    IF <<raw_label, industry>> \in CacheKeys
    THEN label_mapping_cache[<<raw_label, industry>>].status
    ELSE "ABSENT"

\* the set of cache statuses of all the distinct (raw label, industry)
\* pairs of a document
CacheStatuses(d) ==
    {CacheStatusOf(StatementAnalyses(d)[i].figures[j].label, DocIndustry(d)) :
        <<i, j>> \in {p \in (1..2) \X (1..2) :
                        /\ p[1] \in DOMAIN StatementAnalyses(d)
                        /\ p[2] \in DOMAIN StatementAnalyses(d)[p[1]].figures}}

\* C9 as stated: an application pass sets a PENDING_REVIEW document to
\* APPROVED iff the set of cache statuses of its (raw label, industry)
\* pairs is exactly {APPROVED}, and otherwise leaves its payload and status
\* unchanged.  A document whose statements carry no figure has the empty
\* set of statuses and is approved all the same.
C9_ExactlyApprovedSet ==
    [][run_label_normalizer_application =>
        \A d \in StagedDocs :
            label_review_status[d] = "PENDING_REVIEW" =>
                IF CacheStatuses(d) = {"APPROVED"}
                THEN label_review_status'[d] = "APPROVED"
                ELSE /\ label_review_status'[d] = label_review_status[d]
                     /\ label_normalized_data'[d] = label_normalized_data[d]
    ]_vars

\* C9 (amended): a document's label_review_status becomes APPROVED only in
\* an application pass, and a pass sets a PENDING_REVIEW document to
\* APPROVED iff every distinct (raw label, industry) pair of the document
\* has cache status APPROVED (which includes a document with no raw label
\* at all); a single missing, PENDING_REVIEW or REJECTED entry blocks the
\* whole document and leaves its payload and status unchanged.
C9_CacheStatusInvariant ==
    [][\A d \in StagedDocs :
        /\ (label_review_status[d] # "APPROVED"
            /\ label_review_status'[d] = "APPROVED")
           => /\ run_label_normalizer_application
              /\ label_review_status[d] = "PENDING_REVIEW"
              /\ CacheStatuses(d) \subseteq {"APPROVED"}
        /\ (run_label_normalizer_application
            /\ label_review_status[d] = "PENDING_REVIEW")
           => IF CacheStatuses(d) \subseteq {"APPROVED"}
              THEN /\ label_review_status'[d] = "APPROVED"
                   /\ ~label_normalized_data'[d].is_none
              ELSE /\ label_review_status'[d] = label_review_status[d]
                   /\ label_normalized_data'[d] = label_normalized_data[d]
    ]_vars

\* a pass has approved a document with labels while a document of the same
\* sweep, two of whose labels differ in cache status, stayed blocked
C9_Witness ==
    \E d, b \in StagedDocs :
        /\ label_review_status[d] = "APPROVED"
        /\ CacheStatuses(d) = {"APPROVED"}
        /\ ~label_normalized_data[d].is_none
        /\ label_review_status[b] = "PENDING_REVIEW"
        /\ "APPROVED" \in CacheStatuses(b)
        /\ CacheStatuses(b) # {"APPROVED"}
        /\ label_normalized_data[b].is_none

\* C10: a document in label PENDING_REVIEW with some label not APPROVED
\* stays PENDING_REVIEW whatever runs, application passes included; once
\* every distinct raw label of the document is cached APPROVED the next
\* application pass moves it to APPROVED; an APPROVED document is not
\* processed by later passes: its status and payload stay as they are.
C10_BlockingAndRelease ==
    [][\A d \in StagedDocs :
        /\ (label_review_status[d] = "PENDING_REVIEW"
            /\ CacheStatuses(d) \ {"APPROVED"} # {})
           => label_review_status'[d] = "PENDING_REVIEW"
        /\ (label_review_status[d] = "PENDING_REVIEW"
            /\ CacheStatuses(d) \ {"APPROVED"} = {}
            /\ run_label_normalizer_application)
           => label_review_status'[d] = "APPROVED"
        /\ (label_review_status[d] = "APPROVED"
            /\ run_label_normalizer_application)
           => /\ label_review_status'[d] = "APPROVED"
              /\ label_normalized_data'[d] = label_normalized_data[d]
    ]_vars

\* a document with three distinct labels has been released while another
\* document of the same sweep is still held back by a label that is not
\* APPROVED
C10_Witness ==
    \E d, b \in StagedDocs :
        /\ label_review_status[d] = "APPROVED"
        /\ Cardinality(AllRawLabels(d)) >= 3
        /\ CacheStatuses(d) = {"APPROVED"}
        /\ label_review_status[b] = "PENDING_REVIEW"
        /\ CacheStatuses(b) \cap {"PENDING_REVIEW", "REJECTED"} # {}

\* positions <<i, j>> of the figures of an analysis with confidence 'low'
LowPositions(analysis) ==
    {p \in (1..MaxStatements) \X (1..MaxUnitFigures) :
        /\ p[1] \in DOMAIN analysis.statement_analyses
        /\ p[2] \in DOMAIN analysis.statement_analyses[p[1]].figures
        /\ analysis.statement_analyses[p[1]].figures[p[2]].confidence = "low"}

\* C14: the document requires review iff some figure of some statement has
\* confidence 'low' or the filing-level requires_human_review flag is true;
\* the suspicious list has exactly one entry per low-confidence figure, and
\* for every statement type and label as many entries as there are such
\* figures.
C14_ReviewRequirement ==
    ua_result # NoReviewResult =>
        /\ Truthy(ua_result.requires_review)
              <=> (\/ LowPositions(ua_analysis) # {}
                   \/ ua_analysis.requires_human_review = "True")
        /\ Len(ua_result.suspicious_figures)
              = Cardinality(LowPositions(ua_analysis))
        /\ \A t \in {"Profit and Loss", "Balance Sheet"}, l \in {"L1", "L2"} :
              Cardinality({k \in DOMAIN ua_result.suspicious_figures :
                              /\ ua_result.suspicious_figures[k].statement_type = t
                              /\ ua_result.suspicious_figures[k].label = l})
              = Cardinality({p \in LowPositions(ua_analysis) :
                              /\ ua_analysis.statement_analyses[p[1]]
                                     .statement_type = t
                              /\ ua_analysis.statement_analyses[p[1]]
                                     .figures[p[2]].label = l})

\* a call whose analysis has two statements, two low-confidence figures
\* under one label and a filing flag that is null
C14_Witness ==
    /\ ua_result # NoReviewResult
    /\ Len(ua_analysis.statement_analyses) = MaxStatements
    /\ ua_analysis.requires_human_review = "None"
    /\ Cardinality(LowPositions(ua_analysis)) = 2
    /\ Len(ua_result.suspicious_figures) = 2
    /\ ua_result.suspicious_figures[1].label
          = ua_result.suspicious_figures[2].label
    /\ Truthy(ua_result.requires_review)

\* C15 as stated: when a unit discovery sweep has covered a document and
\* the oracle returned an analysis, then, if the analysis requires review,
\* the document is in unit PENDING_REVIEW with one queue row whose
\* suspicious_figures length and low_confidence_count equal the number of
\* low-confidence figures and its payload is not merged; otherwise it is
\* AUTO_APPROVED, the analysis is merged and it has no queue row.  The
\* sweep processes no document, so neither outcome is ever produced.
C15_UnitGatingOutcome ==
    [][\A d \in StagedDocs :
        (unit_swept'[d] # unit_swept[d]
         /\ unit_swept'[d] \in ResponsiveOutcomes) =>
            LET analysis == AnalysisFor(d, unit_swept'[d])
                lows == Cardinality(LowPositions(analysis))
            IN  IF lows > 0 \/ analysis.requires_human_review = "True"
                THEN /\ unit_review_status'[d] = "PENDING_REVIEW"
                     /\ unit_review_queue'[d].exists
                     /\ Len(unit_review_queue'[d].suspicious_figures) = lows
                     /\ unit_review_queue'[d].low_confidence_count = lows
                     /\ unit_normalized_data'[d] = NoUnitAnalysis
                ELSE /\ unit_review_status'[d] = "AUTO_APPROVED"
                     /\ unit_normalized_data'[d] = analysis
                     /\ ~unit_review_queue'[d].exists
    ]_vars

\* C16 as stated: a unit discovery sweep with the oracle enabled issues
\* exactly one oracle request for every statement-normalized document in
\* unit PENDING, and when the oracle responds with an analysis the
\* document has left PENDING by the end of the sweep.
C16_UnitSweepCoversPending ==
    [][\A d \in StagedDocs :
        unit_swept'[d] # unit_swept[d] =>
            /\ unit_oracle_calls'[d] = unit_oracle_calls[d] + 1
            /\ unit_swept'[d] \in ResponsiveOutcomes =>
                  unit_review_status'[d] \in {"AUTO_APPROVED",
                                              "PENDING_REVIEW"}
    ]_vars

\* C17 as stated: an application pass that fetches a queue row a reviewer
\* has approved merges the approved or corrected analysis into the
\* document's payload and sets its unit_review_status to APPROVED, which
\* makes the document eligible for label discovery.
C17_UnitApplicationMerges ==
    [][\A d \in StagedDocs :
        (d \in unit_applied' /\ d \notin unit_applied) =>
            /\ unit_review_status'[d] = "APPROVED"
            /\ unit_normalized_data'[d] # NoUnitAnalysis
    ]_vars

\* C18: no approval, discovery sweep or application pass removes a row of
\* the unit review queue: a row that exists before a step exists after it.
C18_QueueRowNeverDeleted ==
    [][\A d \in StagedDocs :
        unit_review_queue[d].exists => unit_review_queue'[d].exists
    ]_vars

\* a reviewer approved a row with corrections, an application pass fetched
\* it, and the row is still there
C18_Witness ==
    \E d \in StagedDocs :
        /\ d \in unit_applied
        /\ unit_review_queue[d].exists
        /\ unit_review_queue[d].status = "APPROVED"
        /\ unit_review_queue[d].human_corrections = "corrected"

\* the distinct stripped labels of the statement a sweep is looking at
LabelsAtHand(w) ==
    LET d == Head(sweepers[w].doc_ids)
        figs == StatementAnalyses(d)[sweepers[w].stmt].figures
    IN  {Strip(figs[j].label) : j \in DOMAIN figs}

\* C11: a discovery sweep sends a label to the oracle only when the label
\* has no cache entry of any status at that moment, and a statement whose
\* distinct labels are all cached triggers no oracle call at all.  (One row
\* per (raw label, industry) key is what the table's primary key and the
\* upsert give; the cache is a function of the key.)
C11_DiscoveryIdempotent ==
    [][\A w \in Sweepers :
        /\ (sweepers[w].pc = "loop" /\ sweepers'[w].pc = "oracle") =>
              /\ sweepers'[w].request # {}
              /\ \A l \in sweepers'[w].request :
                    CacheStatusOf(l, DocIndustry(Head(sweepers[w].doc_ids)))
                        = "ABSENT"
        /\ (/\ sweepers[w].pc = "loop"
            /\ sweepers[w].doc_ids # <<>>
            /\ sweepers[w].stmt
                  \in DOMAIN StatementAnalyses(Head(sweepers[w].doc_ids))
            /\ \A l \in LabelsAtHand(w) :
                  CacheStatusOf(l, DocIndustry(Head(sweepers[w].doc_ids)))
                      # "ABSENT")
           => sweepers'[w].pc # "oracle"
    ]_vars

\* a sweep with the oracle enabled is past the first statement of a
\* document without having had an answer or an exception: it skipped the
\* statement because another sweep had cached its labels
C11_Witness ==
    \E w \in Sweepers :
        /\ sweepers[w].pc = "loop"
        /\ sweepers[w].allow_llm
        /\ sweepers[w].doc_ids # <<>>
        /\ sweepers[w].stmt = 2
        /\ sweepers[w].processed_in_this_run = {}
        /\ sweepers[w].failed = {}
        /\ sweepers[w].malformed = {}
        /\ \A j \in DOMAIN StatementAnalyses(Head(sweepers[w].doc_ids))[1]
                               .figures :
              CacheStatusOf(
                  StatementAnalyses(Head(sweepers[w].doc_ids))[1]
                      .figures[j].label,
                  DocIndustry(Head(sweepers[w].doc_ids))) # "ABSENT"

\* C12 as stated: a cache entry a reviewer has set to APPROVED or REJECTED
\* keeps its status and its normalized_label in every step of every
\* interleaving of discovery sweeps, oracle responses and review actions.
\* Two sweeps can both find a label uncached and ask the oracle; the answer
\* of the second is written over the decision made on the first.
C12_ReviewDecisionKept ==
    [][\A k \in CacheKeys :
        label_mapping_cache[k].status \in {"APPROVED", "REJECTED"} =>
            label_mapping_cache'[k] = label_mapping_cache[k]
    ]_vars

\* C19 as stated, for label discovery: a document for which an oracle call
\* of the sweep failed after all retries has the label_review_status it
\* had before the sweep (PENDING) when the sweep ends, so that the next
\* sweep selects it again.  The sweep marks it PENDING_REVIEW like any
\* other document.
C19_OracleFailureRetrySafe ==
    [][\A w \in Sweepers, d \in StagedDocs :
        (/\ sweepers[w].pc = "loop"
         /\ sweepers'[w].pc = "idle"
         /\ d \in sweepers[w].failed)
        => /\ label_review_status'[d] = "PENDING"
           /\ unit_review_status'[d] \in {"APPROVED", "AUTO_APPROVED"}
    ]_vars

\* C20 as stated, for label discovery: a document for which the oracle
\* answered with a body that is not valid JSON is recorded as failed when
\* the sweep ends: its status is none of the statuses of a document that
\* is waiting, in review or done.  No failure is recorded anywhere; the
\* document is marked PENDING_REVIEW.
C20_MalformedIsHardFailure ==
    [][\A w \in Sweepers, d \in StagedDocs :
        (/\ sweepers[w].pc = "loop"
         /\ sweepers'[w].pc = "idle"
         /\ d \in sweepers[w].malformed)
        => label_review_status'[d]
               \notin {"PENDING", "PENDING_REVIEW", "APPROVED"}
    ]_vars

\* C13 as stated: in every reachable state of the statement batches and the
\* application passes, also after a sweep that ended between two writes and
\* with two sweeps of a phase at work, a document whose payload a transition
\* has written has the flag of that transition set, and the two sweeps have
\* no document in common.  The payload is committed first and the flag is
\* set by a later transaction.
C13_PayloadAndFlagAtomic ==
    /\ \A d \in StagedDocs :
          /\ statement_normalized_data[d] => statement_normalized[d]
          /\ ~label_normalized_data[d].is_none
                => label_review_status[d] = "APPROVED"
    /\ \A w1, w2 \in Sweepers :
          w1 # w2 => workers[w1].successful \cap workers[w2].successful = {}

\* positions of the raw blocks whose name statement_mapping gives to a slot
BlocksFor(expected) ==
    {i \in DOMAIN cs_raw_statements :
        cs_statement_mapping[cs_raw_statements[i].statement_type] = expected}

\* the slot of the result for a canonical statement
SlotOf(expected) ==
    IF expected \in Range(StandaloneSlots)
    THEN cs_result.standalone.val[expected]
    ELSE cs_result.consolidated.val[expected]

\* C22: the result of categorize_statements has the three standalone and
\* the three consolidated slots, whatever the blocks and the mapping, and a
\* slot no block was assigned to holds the sentinel "NOT_PROVIDED".
C22_SixSlotsWithSentinel ==
    cs_result # NoCategories =>
        /\ cs_result.standalone.keys =
              {"standalone_pnl", "standalone_balance_sheet",
               "standalone_cash_flow"}
        /\ cs_result.consolidated.keys =
              {"consolidated_pnl", "consolidated_balance_sheet",
               "consolidated_cash_flow"}
        /\ \A e \in Range(EXPECTED_STATEMENTS) :
              BlocksFor(e) = {} => SlotOf(e).sentinel = "NOT_PROVIDED"

\* blocks of which one has no mapping and one fills a slot
C22_Witness ==
    /\ cs_result # NoCategories
    /\ \E i \in DOMAIN cs_raw_statements :
          cs_statement_mapping[cs_raw_statements[i].statement_type]
              \in {"absent", "", "segment_results"}
    /\ BlocksFor("consolidated_pnl") # {}
    /\ BlocksFor("standalone_pnl") = {}

\* C23: a slot some blocks map to holds the first of them in input order,
\* no block is in two slots, and a block without a mapping is in no slot.
C23_FirstBlockWins ==
    cs_result # NoCategories =>
        /\ \A e \in Range(EXPECTED_STATEMENTS) :
              BlocksFor(e) # {} =>
                 LET first == CHOOSE i \in BlocksFor(e) :
                                  \A j \in BlocksFor(e) : i <= j
                 IN  /\ SlotOf(e).index = first
                     /\ SlotOf(e).body = cs_raw_statements[first].body
                     /\ SlotOf(e).statement_type =
                           cs_raw_statements[first].statement_type
                     /\ SlotOf(e).standard_mapping = e
        /\ \A e1, e2 \in Range(EXPECTED_STATEMENTS) :
              (e1 # e2 /\ SlotOf(e1).index # 0)
                  => SlotOf(e1).index # SlotOf(e2).index
        /\ \A i \in DOMAIN cs_raw_statements :
              cs_statement_mapping[cs_raw_statements[i].statement_type]
                  \in {"absent", ""}
              => \A e \in Range(EXPECTED_STATEMENTS) : SlotOf(e).index # i

\* two blocks with different figures for one slot, after an unmapped block
C23_Witness ==
    /\ cs_result # NoCategories
    /\ \E i, j \in BlocksFor("standalone_pnl") :
          /\ i < j
          /\ cs_raw_statements[i].body # cs_raw_statements[j].body
    /\ Len(cs_raw_statements) = 3
    /\ cs_statement_mapping[cs_raw_statements[1].statement_type] = "absent"

RECURSIVE ExtractableLeaves(_)
\* the childless nodes of a tree that are not marked non-extractable, in
\* pre-order
ExtractableLeaves(nodes) ==
    IF nodes = <<>> THEN <<>>
    ELSE IF Head(nodes).children # <<>>
    THEN ExtractableLeaves(Head(nodes).children)
             \o ExtractableLeaves(Tail(nodes))
    ELSE IF Head(nodes).extractable = "False"
    THEN ExtractableLeaves(Tail(nodes))
    ELSE <<Head(nodes).id>> \o ExtractableLeaves(Tail(nodes))

\* C24 as stated: for a source of one statement with a non-empty tree, the
\* completeness loader and the label-mapping loader both list exactly the
\* childless nodes not marked non-extractable, in pre-order.  The
\* label-mapping loader never reads the mark.
C24_FlatteningBothLoaders ==
    (pb_leaf_nodes # NotLoaded /\ Len(pb_docs) = 1
       /\ pb_docs[1].statement = "pnl" /\ pb_docs[1].nodes # <<>>) =>
        /\ DictGet(pb_leaf_nodes, "pnl") = ExtractableLeaves(pb_docs[1].nodes)
        /\ DictGet(pb_statement_leaves, "pnl")
              = ExtractableLeaves(pb_docs[1].nodes)

\* the documents of the source whose statement key has a normalized name
DocsNamed(name) ==
    {i \in DOMAIN pb_docs : /\ pb_docs[i].statement # "absent"
                            /\ NormalizedKey(pb_docs[i].statement) = name}

\* C25 as stated: when two or more statement keys of the source share a
\* normalized name, the expected list of the name is the sorted union,
\* without duplicates, of the leaves of their trees.  Only cash_flow is
\* merged; for any other name the last document replaces the list.
C25_SharedNameIsUnion ==
    pb_leaf_nodes # NotLoaded =>
        \A name \in NormalizedKeys :
            (\E i, j \in DocsNamed(name) :
                pb_docs[i].statement # pb_docs[j].statement)
            => DictGet(pb_leaf_nodes, name) =
                  SortSet(UNION {Range(ExtractableLeaves(pb_docs[i].nodes)) :
                                    i \in DocsNamed(name)})

\* C26 as stated: with a taxonomy source that is missing or unreadable a
\* discovery sweep aborts at startup: no step of a sweep takes up a
\* document, calls the oracle, writes a cache row or changes a document's
\* label_review_status.  The loader swallows the error and the sweep goes
\* through the documents with no leaves for any statement.
C26_MissingTaxonomyIsFatal ==
    [][~playbook_readable =>
          /\ label_review_status' = label_review_status
          /\ label_mapping_cache' = label_mapping_cache
          /\ \A w \in Sweepers :
                /\ sweepers'[w].pc # "oracle"
                /\ sweepers'[w].docs_to_update_status = {}
    ]_vars

\* the attempts of the call so far, in order
Attempts == SelectSeq(llm_call.log, LAMBDA e : e.kind = "attempt")

\* C27: a call makes at most LLM_MAX_RETRIES attempts; it returns on the
\* first attempt that answers with text; an attempt that raises or answers
\* with nothing is followed by a wait of LLM_INITIAL_BACKOFF * 2^i (i the
\* number of earlier attempts) and another attempt, except the last
\* allowed one, after which the call raises at once; no wait comes before
\* the first attempt or after the last.
C27_BoundedRetries ==
    LET log == llm_call.log
    IN  /\ Len(Attempts) <= 3
        /\ \A k \in DOMAIN log :
              /\ log[k].kind = (IF k % 2 = 1 THEN "attempt" ELSE "sleep")
              /\ log[k].kind = "sleep" =>
                    /\ log[k - 1].response # "text"
                    /\ log[k].wait_time = 5 * (2 ^ ((k \div 2) - 1))
              /\ (log[k].kind = "attempt" /\ k < Len(log))
                    => log[k].response # "text"
        /\ llm_call.pc = "returned" =>
              /\ log # <<>>
              /\ log[Len(log)].kind = "attempt"
              /\ log[Len(log)].response = "text"
        /\ llm_call.pc = "raised" =>
              /\ Len(Attempts) = 3
              /\ log[Len(log)].kind = "attempt"
              /\ \A k \in DOMAIN Attempts : Attempts[k].response # "text"
        /\ llm_call.pc = "loop" =>
              /\ Len(Attempts) < 3
              /\ log # <<>> => log[Len(log)].kind = "sleep"

\* an empty answer, an exception, then the text
C27_Witness ==
    /\ llm_call.pc = "returned"
    /\ Len(llm_call.log) = 5
    /\ llm_call.log[1].response = "empty"
    /\ llm_call.log[2].wait_time = 5
    /\ llm_call.log[3].response = "raise"
    /\ llm_call.log[4].wait_time = 10

\* C28 as stated: every fact of the final map of an approved filing has
\* the suspect flag and the suspect reason of the statement-normalized fact
\* it came from: the figure with its value, in its statement and scope.
\* The flags are looked up by raw label alone, so a label that occurs in
\* both scopes gets the flags of its last occurrence.
C28_ProvenanceCarriedThrough ==
    \A d \in StagedDocs :
        ~label_normalized_data[d].is_none =>
            \A scope \in {"standalone", "consolidated"}, id \in Ids :
                LET entry == label_normalized_data[d][scope][id]
                    stmts == StatementAnalyses(d)
                IN  entry.present =>
                       \A i \in DOMAIN stmts :
                          \A j \in DOMAIN stmts[i].figures :
                             (/\ ScopeOf(stmts[i].standard_mapping) = scope
                              /\ stmts[i].figures[j].value = entry.value)
                             => LET orig ==
                                      SuspectOf(d, stmts[i].standard_mapping,
                                                stmts[i].figures[j].label)
                                IN  /\ entry.suspect = orig.suspect
                                    /\ entry.suspect_reason
                                          = orig.suspect_reason

\* the statements of a filing's extraction that lack an expected id, in the
\* order of the extraction
IncompleteStatements(content) ==
    {i \in DOMAIN content.statements :
        /\ PlaybookKey(content.statements[i].key) # NULL
        /\ ~(Range(playbook_leaf_nodes(PlaybookKey(content.statements[i].key)))
               \subseteq {content.statements[i].data.normalized_figures[j]
                              .playbook_id :
                          j \in DOMAIN content.statements[i].data
                                           .normalized_figures})}

\* the expected ids that do not occur in statement i, in ascending order
ExactMissingIds(content, i) ==
    SortSet(Range(playbook_leaf_nodes(PlaybookKey(content.statements[i].key)))
              \ {content.statements[i].data.normalized_figures[j].playbook_id :
                    j \in DOMAIN content.statements[i].data.normalized_figures})

\* what the claim asks of a run after a sweep that started with `content`
RecheckedRun(after, content) ==
    LET bad == IncompleteStatements(content)
    IN  IF bad = {}
        THEN after.stage_status[1] = "COMPLETENESS_CHECK_PASSED"
        ELSE LET k == CHOOSE m \in bad : \A n \in bad : m <= n
             IN  /\ after.stage_status[1] = "COMPLETENESS_ERROR"
                 /\ "missing_ids" \in after.details.keys
                 /\ after.details.missing_ids = ExactMissingIds(content, k)
                 /\ after.failure_reason
                       = <<"Completeness check failed on: ",
                           content.statements[k].key>>

\* C29: in every state, the next stage-1a sweep (on its own or inside main)
\* takes up every run in COMPLETENESS_ERROR, as it does a PENDING one: when
\* a statement of the filing lacks an expected id the run is in
\* COMPLETENESS_ERROR after the sweep and details.missing_ids is the exact
\* list of the first such statement; when the statements contain every
\* expected id the run is in COMPLETENESS_CHECK_PASSED after the sweep.
C29_CompletenessRecoverable ==
    \A i \in DOMAIN runs :
        runs[i].stage_status[1] \in {"PENDING", "COMPLETENESS_ERROR"} =>
            LET content == parsed[runs[i].doc_id].content
            IN  /\ content.has_extraction
                /\ RecheckedRun(Stage1a(runs, parsed)[i], content)
                /\ RecheckedRun(
                       Stage1a(WaterfallReset(SeedRuns(runs, parsed)),
                               parsed)[i],
                       content)

\* a run that failed the check on a statement and passed a later sweep: it
\* still carries the reason and the list of the failure
C29_Witness ==
    \E i \in DOMAIN runs :
        /\ runs[i].stage_status[1] = "COMPLETENESS_CHECK_PASSED"
        /\ Len(runs[i].failure_reason) = 2
        /\ runs[i].details.missing_ids # <<>>
        /\ IncompleteStatements(parsed[runs[i].doc_id].content) = {}

\* C30 as stated: when an oracle answer has been written, every pair of the
\* answer is a cache row under (raw label, industry of the document) with
\* status PENDING_REVIEW, whether its mapping is null or not, and with the
\* document and the statement of the batch as its provenance; the pairs
\* count as processed and the document is not recorded as failed.  The
\* provenance of a pair whose key already has a row is the old row's.
C30_EveryPairPersisted ==
    [][\A w \in Sweepers :
          (/\ sweepers[w].pc = "oracle"
           /\ sweepers'[w].pc = "loop"
           /\ sweepers'[w].processed_in_this_run
                 # sweepers[w].processed_in_this_run
              \/ label_mapping_cache' # label_mapping_cache)
          => LET d == Head(sweepers[w].doc_ids)
                 sa == StatementAnalyses(d)[sweepers[w].stmt]
                 written ==
                     {k \in CacheKeys :
                         \/ k \in sweepers'[w].processed_in_this_run
                                     \ sweepers[w].processed_in_this_run
                         \/ label_mapping_cache'[k] # label_mapping_cache[k]}
             IN  /\ \A l \in sweepers[w].request :
                       <<l, DocIndustry(d)>> \in written
                          \cup sweepers[w].processed_in_this_run
                 /\ \A k \in written :
                       /\ k[2] = DocIndustry(d)
                       /\ label_mapping_cache'[k].status = "PENDING_REVIEW"
                       /\ label_mapping_cache'[k].source_context
                             = SourceContext(d, sa.standard_mapping,
                                             StmtKey(sa.standard_mapping))
                 /\ sweepers'[w].failed = sweepers[w].failed
                 /\ sweepers'[w].malformed = sweepers[w].malformed]_vars

UnitApproved(d) == unit_review_status[d] \in {"AUTO_APPROVED", "APPROVED"}

\* C21: in every state reached through the statement, unit and label
\* sweeps, a label discovery sweep holds only documents whose unit status is
\* AUTO_APPROVED or APPROVED, a staging record whose label_review_status is
\* not PENDING has such a unit status, and a record whose unit_review_status
\* is not PENDING has statement_normalized = true.
C21_PhaseOrdering ==
    /\ discovery.pc = "loop" =>
          \A d \in Range(discovery.doc_ids) \cup discovery.docs_to_update_status :
              UnitApproved(d)
    /\ \A d \in StagedDocs :
          label_review_status[d] # "NO_RECORD" =>
              /\ label_review_status[d] # "PENDING" => UnitApproved(d)
              /\ unit_review_status[d] # "PENDING" => statement_normalized[d]

\* a filing that a statement batch of this run staged or normalized stands
\* next to one that a label discovery of this run has put into review (the
\* cache is empty at the start, its rows name the document they come from)
C21_Witness ==
    /\ discovery.pc = "idle"
    /\ \E d \in StagedDocs :
          /\ label_review_status[d] = "PENDING_REVIEW"
          /\ UnitApproved(d)
          /\ \E k \in CacheKeys :
                label_mapping_cache[k].source_context.doc_id = d
    /\ \E d \in StagedDocs :
          /\ d \in DOMAIN statement_normalized_data
          /\ statement_normalized[d]
          /\ unit_review_status[d] = "PENDING"
          /\ label_review_status[d] = "PENDING"

\* a statement discovery can send to the oracle: a P&L or a balance sheet
\* (the statement kinds the taxonomy of the model has a vocabulary for)
\* with figures
WithVocabulary(sa) ==
    /\ sa.figures # <<>>
    /\ sa.standard_mapping
          \in {"standalone_pnl", "consolidated_pnl",
               "standalone_balance_sheet", "consolidated_balance_sheet"}

\* C31: a sweep puts a document on its list of documents to mark only when
\* it has gone through all statements of the document, and only documents
\* on the list of a finished sweep become PENDING_REVIEW; a document that
\* is skipped as a whole keeps its label_review_status, is never the
\* document of an oracle request and of no cache row; a statement of
\* unknown kind or without vocabulary leads to no request and the sweep
\* goes on with the next statement, while a statement with vocabulary and
\* new labels is sent to the oracle when the oracle is enabled.
C31_DiscoveryMarking ==
    [][/\ \A w \in Sweepers :
             \A d \in sweepers'[w].docs_to_update_status
                         \ sweepers[w].docs_to_update_status :
                /\ sweepers[w].doc_ids # <<>>
                /\ d = Head(sweepers[w].doc_ids)
                /\ sweepers[w].stmt > Len(StatementAnalyses(d))
       /\ \A d \in StagedDocs :
             label_review_status'[d] # label_review_status[d] =>
                /\ label_review_status'[d] = "PENDING_REVIEW"
                /\ doc_kind[d] \notin SkippedKinds
                /\ \E w \in Sweepers :
                      /\ d \in sweepers[w].docs_to_update_status
                      /\ sweepers[w].doc_ids = <<>>
       /\ \A k \in CacheKeys :
             LET d == label_mapping_cache'[k].source_context.doc_id
             IN  d # NoId => doc_kind[d] \notin SkippedKinds
       /\ \A w \in Sweepers :
             (sweepers[w].pc = "loop" /\ sweepers'[w] # sweepers[w]
              /\ sweepers[w].doc_ids # <<>>)
             => LET d == Head(sweepers[w].doc_ids)
                    i == sweepers[w].stmt
                    stmts == StatementAnalyses(d)
                IN  IF doc_kind[d] \in SkippedKinds
                    THEN /\ sweepers'[w].pc = "loop"
                         /\ sweepers'[w].doc_ids = Tail(sweepers[w].doc_ids)
                         /\ sweepers'[w].docs_to_update_status
                               = sweepers[w].docs_to_update_status
                    ELSE IF i > Len(stmts) THEN sweepers'[w].pc = "loop"
                    ELSE IF /\ WithVocabulary(stmts[i])
                            /\ sweepers[w].allow_llm
                            /\ \E j \in DOMAIN stmts[i].figures :
                                  /\ label_mapping_cache[
                                         <<Strip(stmts[i].figures[j].label),
                                           DocIndustry(d)>>].status = "ABSENT"
                                  /\ <<Strip(stmts[i].figures[j].label),
                                       DocIndustry(d)>>
                                        \notin sweepers[w].processed_in_this_run
                    THEN /\ sweepers'[w].pc = "oracle"
                         /\ sweepers'[w].request # {}
                         /\ sweepers'[w].request
                               \subseteq {Strip(stmts[i].figures[j].label) :
                                             j \in DOMAIN stmts[i].figures}
                    ELSE /\ sweepers'[w].pc = "loop"
                         /\ sweepers'[w].stmt = i + 1
                         /\ sweepers'[w].doc_ids = sweepers[w].doc_ids]_vars

\* a finished sweep: the filing with the three kinds of statements is in
\* PENDING_REVIEW with a cache row for the label of its P&L only, next to a
\* skipped filing that is still PENDING
C31_Witness ==
    /\ sweepers[1].pc = "idle"
    /\ \E d \in StagedDocs :
          /\ doc_kind[d] = MixedKind
          /\ label_review_status[d] = "PENDING_REVIEW"
          /\ label_mapping_cache[<<"L3", "Banking">>].source_context.doc_id = d
          /\ label_mapping_cache[<<"L1", "Banking">>].status = "ABSENT"
          /\ label_mapping_cache[<<"L2", "Banking">>].status = "ABSENT"
    /\ \E d \in StagedDocs :
          /\ doc_kind[d] \in SkippedKinds
          /\ label_review_status[d] = "PENDING"

\* the figures of a filing, each with the scope of its statement
FiguresOf(d) ==
    UNION {{[scope |-> ScopeOf(StatementAnalyses(d)[i].standard_mapping),
             label |-> StatementAnalyses(d)[i].figures[j].label,
             value |-> StatementAnalyses(d)[i].figures[j].value] :
               j \in DOMAIN StatementAnalyses(d)[i].figures} :
           i \in DOMAIN StatementAnalyses(d)}

\* the cache row application reads for a figure
RowOfFigure(d, fig) ==
    IF <<fig.label, DocIndustry(d)>> \in CacheKeys
    THEN label_mapping_cache[<<fig.label, DocIndustry(d)>>]
    ELSE AbsentMapping

\* C32: for a filing in label review whose raw labels all have a row with
\* status APPROVED, with or without a mapping, the eligibility check of
\* application succeeds and the final map has no fact of a label whose
\* approved mapping is null; an approval stores the edited label, null for
\* the empty text and for the word 'null'; a rejection changes the status
\* and leaves normalized_label (and the provenance) as they are.
C32_ApprovedNullDoesNotBlock ==
    /\ [](\A d \in StagedDocs :
            (/\ label_review_status[d] = "PENDING_REVIEW"
             /\ \A fig \in FiguresOf(d) :
                   RowOfFigure(d, fig).status = "APPROVED")
            => /\ AllApproved(label_mapping_cache, d)
               /\ \A fig \in FiguresOf(d) :
                     RowOfFigure(d, fig).normalized_label = NoId =>
                        \A id \in Ids :
                           LET e == FinalData(label_mapping_cache, d)
                                       [fig.scope][id]
                           IN  ~(e.present /\ e.value = fig.value))
    /\ [][\A k \in CacheKeys :
             LET old == label_mapping_cache[k]
                 new == label_mapping_cache'[k]
             IN  /\ (old.status = "PENDING_REVIEW" /\ new.status = "APPROVED")
                    => new.normalized_label \in {NoId, old.normalized_label}
                 /\ (old.status # "REJECTED" /\ new.status = "REJECTED")
                    => /\ new.normalized_label = old.normalized_label
                       /\ new.source_context = old.source_context]_vars

\* a filing was approved with a label whose approved mapping is null: the
\* fact of that label is not in its final map, a mapped fact is
C32_Witness ==
    \E d \in StagedDocs :
        /\ label_review_status[d] = "APPROVED"
        /\ ~label_normalized_data[d].is_none
        /\ \E fig \in FiguresOf(d) :
              /\ RowOfFigure(d, fig).status = "APPROVED"
              /\ RowOfFigure(d, fig).normalized_label = NoId
              /\ \A id \in Ids :
                    label_normalized_data[d][fig.scope][id].value # fig.value
        /\ \E fig \in FiguresOf(d), id \in Ids :
              /\ label_normalized_data[d][fig.scope][id].present
              /\ label_normalized_data[d][fig.scope][id].value = fig.value

\* ------------------------------------------------- queuing a filing again
MaxQueuings == 3

\* process_unit_normalization_discovery on a document whose analysis asks
\* for review: the row is written whether or not the document has one
QueueForReview(d, outcome) ==
    /\ unit_review_queue[d].created_at < MaxQueuings
    /\ LET analysis == AnalysisFor(d, outcome)
           review == determine_review_requirement(analysis)
       IN  /\ Truthy(review.requires_review)
           /\ unit_review_queue' =
                 create_unit_review_record(unit_review_queue, d, analysis,
                                           review.suspicious_figures)
    /\ UNCHANGED <<uavars, libvars, stmtvars, unit_normalized_data,
                   unit_oracle_calls, unit_swept, unit_applied, sweepvars>>
    /\ UNCHANGED <<ccvars, qvars, label_review_status, stagedvars, labelvars>>

\* the statements of every staged filing are normalized, no filing is queued
InitRequeue ==
    /\ LibIdle
    /\ CompletenessIdle
    /\ QualityIdle
    /\ label_mapping_cache = [k \in CacheKeys |-> AbsentMapping]
    /\ discovery = DiscoveryIdle
    /\ ReviewIdle
    /\ label_review_status =
          [d \in AllDocs |-> IF d \in StagedDocs THEN "PENDING"
                             ELSE "NO_RECORD"]
    /\ statement_normalized = [d \in AllDocs |-> d \in StagedDocs]
    /\ statement_normalized_data = statement_normalized
    /\ unit_review_queue = [d \in AllDocs |-> NoQueueRow]
    /\ unit_review_status = [d \in AllDocs |-> "PENDING"]
    /\ label_normalized_data = [d \in AllDocs |-> NoFinalData]
    /\ unit_normalized_data = [d \in AllDocs |-> NoUnitAnalysis]
    /\ unit_oracle_calls = [d \in AllDocs |-> 0]
    /\ unit_swept = [d \in AllDocs |-> "none"]
    /\ unit_applied = {}
    /\ sweepers = [w \in Sweepers |-> SweeperIdle]
    /\ workers = [w \in Sweepers |-> WorkerIdle]

NextRequeue ==
    \/ \E d \in StagedDocs, outcome \in ResponsiveOutcomes :
          QueueForReview(d, outcome)
    \/ \E d \in StagedDocs, corrections \in {NULL, "corrected"} :
          approve_unit_review(d, corrections)

SpecRequeue == InitRequeue /\ [][NextRequeue]_vars

\* C33: the queue has one row per document (the table is keyed by doc_id),
\* and a step that queues a document which has a row already replaces the
\* oracle analysis, the filing data and the creation time of that row and
\* leaves its status, reviewer, review time and human corrections as they are.
C33_RequeueKeepsReview ==
    [][\A d \in StagedDocs :
          (unit_review_queue[d].exists
           /\ unit_review_queue'[d].created_at
                 # unit_review_queue[d].created_at)
          => /\ unit_review_queue'[d].exists
             /\ unit_review_queue'[d].created_at
                   > unit_review_queue[d].created_at
             /\ unit_review_queue'[d].status = unit_review_queue[d].status
             /\ unit_review_queue'[d].reviewed_by
                   = unit_review_queue[d].reviewed_by
             /\ unit_review_queue'[d].reviewed_at
                   = unit_review_queue[d].reviewed_at
             /\ unit_review_queue'[d].human_corrections
                   = unit_review_queue[d].human_corrections
             /\ unit_review_queue'[d].low_confidence_count
                   = Len(unit_review_queue'[d].suspicious_figures)
             /\ unit_review_queue'[d].total_figures_analyzed
                   = TotalFigures(unit_review_queue'[d].llm_analysis)]_vars

\* an approved, corrected row was written again with another analysis: it is
\* still approved, and its review is older than its content
C33_Witness ==
    \E d \in StagedDocs :
        /\ unit_review_queue[d].exists
        /\ unit_review_queue[d].status = "APPROVED"
        /\ unit_review_queue[d].human_corrections = "corrected"
        /\ unit_review_queue[d].reviewed_by = "human_reviewer"
        /\ unit_review_queue[d].reviewed_at < unit_review_queue[d].created_at
        /\ unit_review_queue[d].llm_analysis = AnalysisFor(d, "flagged")
        /\ unit_review_queue[d].low_confidence_count = 0

SeedSelect(w) ==
    /\ workers[w].pc = "idle"
    /\ workers' =
          [workers EXCEPT
              ![w] = [pc |-> "seed_insert",
                      doc_ids |-> SortSet(DocsToCreate(runs, parsed)),
                      successful |-> {}]]
    /\ UNCHANGED <<uavars, libvars, stmtvars, unitvars, sweepers>>
    /\ UNCHANGED <<ccvars, qvars, label_review_status, stagedvars, labelvars>>

\* the rest of it: return on an empty selection, insert and commit otherwise
SeedInsert(w) ==
    /\ workers[w].pc = "seed_insert"
    /\ runs' = bulk_insert_mappings(runs, workers[w].doc_ids)
    /\ workers' = [workers EXCEPT ![w] = WorkerIdle]
    /\ UNCHANGED <<uavars, libvars, stmtvars, unitvars, sweepers>>
    /\ UNCHANGED <<ccvars, runs0, sweeps, parsed, label_review_status,
                   stagedvars, labelvars>>

\* every filing is a PDF filing whose statements are isolated, no run yet
InitSeed ==
    /\ LibIdle
    /\ CompletenessIdle
    /\ runs = <<>>
    /\ runs0 = <<>>
    /\ sweeps = 0
    /\ parsed = [d \in Docs |-> PdfIsolated]
    /\ label_review_status = [d \in AllDocs |-> "NO_RECORD"]
    /\ LabelIdle
    /\ PipeIdle
    /\ ReviewIdle

\* the extractions of this specification: every statement extracted, with
\* numbers for the figures the oracle kept, of which the first is one
ExtractedWithNumbers(row) ==
    /\ row.parse_status = "EXTRACTION_SUCCESS"
    /\ \A i \in DOMAIN row.content.statements :
          LET figs == row.content.statements[i].data.normalized_figures
          IN  /\ \A j \in DOMAIN figs : figs[j].value # NULL
              /\ figs[1].playbook_id =
                    playbook_leaf_nodes(
                        PlaybookKey(row.content.statements[i].key))[1]
              /\ i > 1 => Len(figs) = 2

NextSeed ==
    \/ \E d \in Docs : /\ process_single_document_extraction(d)
                        /\ ExtractedWithNumbers(parsed'[d])
    \/ \E d \in Docs : ResubmitForExtraction(d)
    \/ \E w \in Sweepers : SeedSelect(w)
    \/ \E w \in Sweepers : SeedInsert(w)
    \/ create_quality_engine_runs_for_new_documents
    \/ run_stage_1a_checks

SpecSeed == InitSeed /\ [][NextSeed]_vars

\* C35: seeding gives every extracted document without a run one run, with
\* the five stages PENDING and no versions; seeding again changes nothing;
\* sequential or concurrent, seeding never leaves two runs for a document
\* and never changes or removes a run that exists.
C35_SeedingIdempotent ==
    /\ [](/\ \A i, j \in DOMAIN runs :
                runs[i].doc_id = runs[j].doc_id => i = j
          /\ LET seeded == SeedRuns(runs, parsed)
             IN  /\ SeedRuns(seeded, parsed) = seeded
                 /\ \A d \in Docs :
                       parsed[d].parse_status = "EXTRACTION_SUCCESS"
                          => d \in RunDocIds(seeded)
                 /\ \A i \in DOMAIN seeded :
                       IF i \in DOMAIN runs THEN seeded[i] = runs[i]
                       ELSE seeded[i] = NewRun(seeded[i].doc_id))
    /\ [][(Len(runs') # Len(runs) \/ workers' # workers)
          => /\ Len(runs') >= Len(runs)
             /\ \A i \in DOMAIN runs : runs'[i] = runs[i]
             /\ \A i \in DOMAIN runs' \ DOMAIN runs :
                   runs'[i] = NewRun(runs'[i].doc_id)]_vars

\* a seeder that selected a document finds it seeded by the other one, next
\* to a run that stage 1 has already checked
C35_Witness ==
    \E w \in Sweepers :
        /\ workers[w].pc = "seed_insert"
        /\ \E i \in DOMAIN workers[w].doc_ids :
              workers[w].doc_ids[i] \in RunDocIds(runs)
        /\ \E i \in DOMAIN runs : runs[i].stage_status[1] # "PENDING"

\* C36: in every state the seeding, the waterfall sweep and the stage-1
\* orchestrator lead to, each run has stage 1 PENDING, COMPLETENESS_ERROR or
\* COMPLETENESS_CHECK_PASSED with no stage-1 version, and stages 2 to 5
\* PENDING with no version; no run is PASSED at stage 1, so the sweep
\* selects none of them.
C36_PipelineStatuses ==
    /\ \A i \in DOMAIN runs :
          /\ runs[i].stage_status[1] \in
                {"PENDING", "COMPLETENESS_ERROR", "COMPLETENESS_CHECK_PASSED"}
          /\ \A k \in Stages : runs[i].stage_version[k] = NULL
          /\ \A k \in Stages \ {1} : runs[i].stage_status[k] = "PENDING"
          /\ ~ResetWhere(runs[i])
    /\ WaterfallReset(runs) = runs

\* the pipeline has checked two runs, one complete and one not
C36_Witness ==
    /\ \E i \in DOMAIN runs :
          runs[i].stage_status[1] = "COMPLETENESS_CHECK_PASSED"
    /\ \E i \in DOMAIN runs :
          /\ runs[i].stage_status[1] = "COMPLETENESS_ERROR"
          /\ runs[i].details.missing_ids # <<>>

\* C37: in the result of categorize_statements a slot holds the sentinel
\* "NOT_PROVIDED" exactly when its name is in missing_statements and holds a
\* block exactly when its name is in found_statements; found_statements can
\* hold mapped names that are none of the six slots.
C37_SlotsAgreeWithLists ==
    cs_result # NoCategories =>
        /\ \A e \in Range(EXPECTED_STATEMENTS) :
              /\ (SlotOf(e) = NOT_PROVIDED)
                    <=> (e \in Range(cs_result.missing_statements))
              /\ (SlotOf(e).sentinel = NULL /\ SlotOf(e).index # 0)
                    <=> (e \in cs_result.found_statements)
              /\ SlotOf(e) = NOT_PROVIDED
                    \/ (SlotOf(e).sentinel = NULL /\ SlotOf(e).index # 0)
        /\ cs_result.found_statements =
              {cs_statement_mapping[cs_raw_statements[i].statement_type] :
                  i \in DOMAIN cs_raw_statements} \ {"absent", ""}

\* a filled standalone slot, a filled consolidated slot, and two found names
\* that are no slot
C37_Witness ==
    /\ cs_result # NoCategories
    /\ SlotOf("consolidated_pnl") # NOT_PROVIDED
    /\ "standalone_pnl" \in Range(cs_result.missing_statements)
    /\ "segment_results" \in cs_result.found_statements
    /\ cs_result.found_statements \ Range(EXPECTED_STATEMENTS) # {}

\* C38: for a statement of a filing, the leaf ids label discovery offers the
\* oracle are the leaf ids the completeness check expects for the kind of
\* the statement (for a cash-flow statement the union over both methods),
\* also when the tree has childless nodes marked non-extractable.
C38_SameVocabularyAsCompleteness ==
    pb_leaf_nodes # NotLoaded =>
        \A std_map \in {"standalone_pnl", "consolidated_pnl",
                        "standalone_cash_flow", "consolidated_cash_flow"} :
            Range(DictGet(pb_statement_leaves, StmtKey(std_map)))
               = Range(DictGet(pb_leaf_nodes, PlaybookKey(std_map)))

\* ------------------------------------------------ discovery, then review
\* banking filings only: the filing with a padded label, the plain filing
\* and the filing with statements discovery passes over
ReleaseKinds == {0, 1, MixedKind}

InitRelease ==
    /\ CategorizeIdle
    /\ PlaybookIdle
    /\ LlmIdle
    /\ playbook_readable = TRUE
    /\ doc_kind \in [AllDocs -> ReleaseKinds]
    /\ CompletenessIdle
    /\ QualityIdle
    /\ ReviewIdle
    /\ PipeIdle
    /\ label_review_status =
          [d \in AllDocs |-> IF d \in StagedDocs THEN "PENDING"
                             ELSE "NO_RECORD"]
    /\ unit_review_status =
          [d \in AllDocs |-> IF d \notin StagedDocs THEN "PENDING"
                             ELSE "AUTO_APPROVED"]
    /\ label_normalized_data = [d \in AllDocs |-> NoFinalData]
    /\ label_mapping_cache = [k \in CacheKeys |-> AbsentMapping]
    /\ discovery = DiscoveryIdle

\* sweeps with the oracle enabled
NextRelease ==
    \/ SweepStart(1, TRUE)
    \/ SweepStep(1)
    \/ \E answer \in RaceAnswers : OracleReturn(1, answer)
    \/ SweepFinish(1)

SpecRelease == InitRelease /\ [][NextRelease]_vars

\* C39: once a discovery sweep with the oracle enabled has marked a filing
\* PENDING_REVIEW, every (raw label, industry) key the application pass
\* looks up for the filing has a cache row, so that review alone can release
\* the filing: discovery caches the keys application reads.
C39_ReviewAloneReleases ==
    \A d \in StagedDocs :
        (/\ label_review_status[d] = "PENDING_REVIEW"
         /\ \A w \in Sweepers : sweepers[w].pc = "idle")
        => \A l \in AllRawLabels(d) :
              get_label_mapping(label_mapping_cache, l,
                                DocIndustry(d)).status # "ABSENT"

\* ------------------------------------------- review with edits, then apply
\* the staged filings are unit-approved and pending label normalization
InitEdit ==
    /\ LibIdle
    /\ CompletenessIdle
    /\ QualityIdle
    /\ label_review_status =
          [d \in AllDocs |-> IF d \in StagedDocs THEN "PENDING"
                             ELSE "NO_RECORD"]
    /\ unit_review_status =
          [d \in AllDocs |-> IF d \in StagedDocs THEN "AUTO_APPROVED"
                             ELSE "PENDING"]
    /\ label_normalized_data = [d \in AllDocs |-> NoFinalData]
    /\ label_mapping_cache = [k \in CacheKeys |-> AbsentMapping]
    /\ discovery = DiscoveryIdle
    /\ PipeIdle
    /\ ReviewIdle

\* the reviewer types any canonical id, the word 'null' or nothing
NextEdit ==
    \/ run_label_normalizer_discovery(TRUE)
    \/ DiscoveryDoc
    \/ DiscoveryFinish
    \/ \E key \in CacheKeys, edited_label \in {NoId, NullWord} \cup Ids :
          approveLabel(key, edited_label)
    \/ run_label_normalizer_application

SpecEdit == InitEdit /\ [][NextEdit]_vars

\* C40: the application pass loses no mapped fact: every figure of a filing
\* whose raw label has an approved mapping that is not null is in the final
\* map, in the scope of its statement, under its canonical id, with its own
\* value; and a filing marked APPROVED has label_normalized_data.
C40_NoMappedFactLost ==
    \A d \in StagedDocs :
        /\ label_review_status[d] = "APPROVED"
              => ~label_normalized_data[d].is_none
        /\ AllApproved(label_mapping_cache, d) =>
              \A fig \in FiguresOf(d) :
                 LET id == get_label_mapping(label_mapping_cache, fig.label,
                                             DocIndustry(d)).normalized_label
                 IN  id # NoId =>
                        LET e == FinalData(label_mapping_cache, d)
                                    [fig.scope][id]
                        IN  e.present /\ e.value = fig.value

====
